---------------------------- MODULE Spec2Model ----------------------------
(***************************************************************************)
(* A model of gumdrop: the argument tokenizer (Parser, src/src/lib.rs) and *)
(* the parse function that derive(Options) generates for a record          *)
(* (src/gumdrop_derive/src/lib.rs).                                        *)
(*                                                                         *)
(* A string is a sequence of one-character strings: "-ab" is               *)
(* <<"-", "a", "b">>.                                                      *)
(***************************************************************************)
EXTENDS Integers, Sequences, FiniteSets, TLC

(***************************************************************************)
(* Bounds of the model.                                                    *)
(***************************************************************************)
\* The longest argument list given to Parser::new.
MaxArgs == 3

(***************************************************************************)
(* String helpers (str::starts_with, str::find, slicing).                  *)
(***************************************************************************)
StartsWith(s, prefix) ==
    /\ Len(s) >= Len(prefix)
    /\ SubSeq(s, 1, Len(prefix)) = prefix

\* str::find(ch): the 1-based index of the first ch in s, 0 when there is none.
Find(s, ch) ==
    IF \E i \in 1..Len(s) : s[i] = ch
    THEN CHOOSE i \in 1..Len(s) : s[i] = ch /\ \A j \in 1..(i - 1) : s[j] # ch
    ELSE 0

\* &s[from..], with from a 1-based index.
From(s, from) == SubSeq(s, from, Len(s))

(***************************************************************************)
(* enum ParsingStyle                                                       *)
(***************************************************************************)
AllOptions == "AllOptions"
StopAtFirstFree == "StopAtFirstFree"
ParsingStyle == {AllOptions, StopAtFirstFree}

(***************************************************************************)
(* enum Opt, and the Option<..> results of next_opt and next_arg.  Every   *)
(* result is a record [kind, name, value]; kind "None" is end-of-stream.   *)
(***************************************************************************)
Short(ch) == [kind |-> "Short", name |-> <<ch>>, value |-> <<>>]
Long(name) == [kind |-> "Long", name |-> name, value |-> <<>>]
LongWithArg(name, value) == [kind |-> "LongWithArg", name |-> name, value |-> value]
Free(value) == [kind |-> "Free", name |-> <<>>, value |-> value]
\* Some(&str) of next_arg.
Arg(value) == [kind |-> "Arg", name |-> <<>>, value |-> value]
None == [kind |-> "None", name |-> <<>>, value |-> <<>>]

(***************************************************************************)
(* struct Parser: args is what the slice iterator has left, cur the        *)
(* Option<Chars> cursor into a short-option cluster.                       *)
(***************************************************************************)
NoCur == [some |-> FALSE, rest |-> <<>>]
SomeCur(chars) == [some |-> TRUE, rest |-> chars]

ParserNew(args, style) ==
    [args |-> args, cur |-> NoCur, style |-> style, terminated |-> FALSE]

\* self.args.next() with a bug: the iterator is not advanced.
ArgsNextPeek(p) ==
    IF p.args # <<>>
    THEN [some |-> TRUE, val |-> Head(p.args), p |-> p]
    ELSE [some |-> FALSE, val |-> <<>>, p |-> p]

\* self.args.next(): the item, and the parser with the iterator advanced.
ArgsNext(p) ==
    IF p.args # <<>>
    THEN [some |-> TRUE, val |-> Head(p.args), p |-> [p EXCEPT !.args = Tail(@)]]
    ELSE [some |-> FALSE, val |-> <<>>, p |-> p]

\* next_opt, first block: the cluster cursor still has a character.
NextOptCur(p) ==
    [p |-> [p EXCEPT !.cur = SomeCur(Tail(p.cur.rest))],
     ret |-> Short(Head(p.cur.rest))]

\* next_opt, arms `Some(arg @ "-")` and `Some(free)`, with a bug: the style is
\* not consulted and option recognition goes on.
NextOptFreeGoesOn(q, arg) ==
    [p |-> q, ret |-> Free(arg)]

\* next_opt, arms `Some(arg @ "-")` and `Some(free)`.
NextOptFree(q, arg) ==
    [p |-> [q EXCEPT !.terminated = (q.style = StopAtFirstFree) \/ @],
     ret |-> Free(arg)]

\* next_opt, arm `Some("--")`, with a bug: the "--" is itself returned.
NextOptDoubleDashEmitted(q) ==
    [p |-> [q EXCEPT !.terminated = TRUE], ret |-> Free(<<"-", "-">>)]

\* next_opt, arm `Some("--")`.
NextOptDoubleDash(q) ==
    LET n == ArgsNext(q)
    IN  [p |-> [n.p EXCEPT !.terminated = TRUE],
         ret |-> IF n.some THEN Free(n.val) ELSE None]

\* The arm of long options with a bug: the argument is split at its last "=".
NextOptLongAtLast(q, long) ==
    LET eqs == {i \in 1..Len(long) : long[i] = "="}
        pos == IF eqs = {} THEN 0 ELSE CHOOSE i \in eqs : \A j \in eqs : j <= i
    IN  [p |-> q,
         ret |-> IF pos # 0
                 THEN LongWithArg(SubSeq(long, 3, pos - 1), From(long, pos + 1))
                 ELSE Long(From(long, 3))]

\* next_opt, arm `Some(long) if long.starts_with("--")`.
NextOptLong(q, long) ==
    LET pos == Find(long, "=")
    IN  [p |-> q,
         ret |-> IF pos # 0
                 THEN LongWithArg(SubSeq(long, 3, pos - 1), From(long, pos + 1))
                 ELSE Long(From(long, 3))]

\* next_opt, arm `Some(short) if ..`, with a bug: the cursor is stashed before
\* the first character is taken from it.
NextOptShortStashesAll(q, short) ==
    LET chars == From(short, 2)
    IN  [p |-> [q EXCEPT !.cur = SomeCur(chars)], ret |-> Short(Head(chars))]

\* next_opt, arm `Some(short) if short.starts_with('-')`.
NextOptShort(q, short) ==
    LET chars == From(short, 2)
    IN  IF chars # <<>>
        THEN [p |-> [q EXCEPT !.cur = SomeCur(Tail(chars))], ret |-> Short(Head(chars))]
        ELSE [p |-> [q EXCEPT !.cur = SomeCur(<<>>)], ret |-> None]

\* next_opt, `match self.args.next()`.
NextOptArg(q) ==
    LET n == ArgsNext(q)
    IN  IF ~n.some THEN [p |-> n.p, ret |-> None]
        ELSE IF n.val = <<"-">> THEN NextOptFree(n.p, n.val)
        ELSE IF n.val = <<"-", "-">> THEN NextOptDoubleDash(n.p)
        ELSE IF StartsWith(n.val, <<"-", "-">>) THEN NextOptLong(n.p, n.val)
        ELSE IF StartsWith(n.val, <<"-">>) THEN NextOptShort(n.p, n.val)
        ELSE NextOptFree(n.p, n.val)

\* next_opt, `if self.terminated`, with a bug: the flag is not honoured.
NextOptTerminatedIgnored(q) == NextOptArg(q)

\* next_opt, `if self.terminated`, with a bug: a raw "--" is skipped as it
\* is before the flag is set.
NextOptTerminatedSwallows(q) ==
    LET n == ArgsNext(q)
        k == ArgsNext(n.p)
    IN  IF n.some /\ n.val = <<"-", "-">>
        THEN [p |-> k.p, ret |-> IF k.some THEN Free(k.val) ELSE None]
        ELSE [p |-> n.p, ret |-> IF n.some THEN Free(n.val) ELSE None]

\* next_opt, `if self.terminated`: the next raw argument is free.
NextOptTerminated(q) ==
    LET n == ArgsNext(q)
    IN  [p |-> n.p, ret |-> IF n.some THEN Free(n.val) ELSE None]

\* Parser::next_opt
NextOpt(p) ==
    IF p.cur.some /\ p.cur.rest # <<>>
    THEN NextOptCur(p)
    ELSE LET q == [p EXCEPT !.cur = NoCur]
         IN  IF q.terminated THEN NextOptTerminated(q) ELSE NextOptArg(q)

\* next_arg with a bug: the cluster remainder is dropped, not returned.
NextArgDropsRemainder(p) ==
    LET n == ArgsNext([p EXCEPT !.cur = NoCur])
    IN  [p |-> n.p, ret |-> IF n.some THEN Arg(n.val) ELSE None]

\* next_arg with a bug: the raw argument read is classified, `--` setting
\* the flag and a free argument setting it under StopAtFirstFree.
NextArgClassifies(p) ==
    IF p.cur.some /\ p.cur.rest # <<>>
    THEN [p |-> [p EXCEPT !.cur = NoCur], ret |-> Arg(p.cur.rest)]
    ELSE LET n == ArgsNext([p EXCEPT !.cur = NoCur])
             ends == \/ n.val = <<"-", "-">>
                     \/ ~StartsWith(n.val, <<"-">>) /\ p.style = StopAtFirstFree
         IN  [p |-> IF n.some /\ ends THEN [n.p EXCEPT !.terminated = TRUE] ELSE n.p,
              ret |-> IF n.some THEN Arg(n.val) ELSE None]

\* Parser::next_arg
NextArg(p) ==
    IF p.cur.some /\ p.cur.rest # <<>>
    THEN [p |-> [p EXCEPT !.cur = NoCur], ret |-> Arg(p.cur.rest)]
    ELSE LET n == ArgsNext([p EXCEPT !.cur = NoCur])
         IN  [p |-> n.p, ret |-> IF n.some THEN Arg(n.val) ELSE None]

(***************************************************************************)
(* The raw arguments the argument lists are made of.                       *)
(***************************************************************************)
ArgPool ==
    { <<>>,                                 \* ""
      <<"-">>,                              \* "-"
      <<"-", "-">>,                         \* "--"
      <<"-", "a">>,                         \* "-a"
      <<"-", "a", "-", "b">>,               \* "-a-b"
      <<"-", "-", "a">>,                    \* "--a"
      <<"-", "-", "a", "=", "b", "=">>,     \* "--a=b="
      <<"-", "-", "a", "=">>,               \* "--a="
      <<"-", "-", "-">>,                    \* "---"
      <<"a">>,                              \* "a"
      <<"a", "=", "-">> }                   \* "a=-"

RECURSIVE ListsUpTo(_, _)
\* Every list of at most n items of S.
ListsUpTo(S, n) ==
    IF n = 0 THEN {<<>>}
    ELSE LET shorter == ListsUpTo(S, n - 1)
         IN  shorter \cup {<<x>> \o l : x \in S, l \in {m \in shorter : Len(m) = n - 1}}

(***************************************************************************)
(* derive(Options): what derive_options_struct keeps of a record's fields. *)
(* A long name is a string, NoName when the option has none; a short name  *)
(* is a one-character string, NoShort when it has none.                    *)
(***************************************************************************)
\* ParseMethod::tuple_len = None: the field's type is not a tuple.
NoLen == -1
NoName == <<>>
NoShort == ""
help == <<"h", "e", "l", "p">>

\* ParseFn, by the attribute that chooses it: none, parse(from_str = "..")
\* and parse(try_from_str = "..").
ParseDefault == "Default"
ParseFromStr == "FromStr"
ParseTryFromStr == "TryFromStr"

\* Opt::default = None
NoDefault == <<"none">>

\* The method of Action::Push / FreeAction::Push that Action::infer gives a
\* Vec field.
push == "push"

\* struct Opt, with the help_flag / no_help_flag attributes of its AttrOpts
\* and the ParseFn of its action; name is field.to_string(), meth the method
\* of Action::Push.
OptDecl(field, action, ty, tuple_len, long, short, required) ==
    [field |-> field, action |-> action, ty |-> ty, tuple_len |-> tuple_len,
     long |-> long, short |-> short, required |-> required,
     help_flag |-> FALSE, no_help_flag |-> FALSE,
     name |-> <<>>, no_short |-> FALSE, parse |-> ParseDefault, default |-> NoDefault,
     meth |-> push]

\* struct FreeOpt; meth is the method of FreeAction::Push.
FreeDecl(field, action, ty, required) ==
    [field |-> field, action |-> action, ty |-> ty, required |-> required,
     parse |-> ParseDefault, default |-> NoDefault, meth |-> push]

\* A struct's options, free fields and command field, in declaration order.
StructDecl(options, free, command, command_ty, command_required) ==
    [kind |-> "struct", options |-> options, free |-> free, command |-> command,
     command_ty |-> command_ty, command_required |-> command_required,
     commands |-> <<>>, core |-> FALSE]

\* struct Cmd: a variant of a command enum.
Cmd(name, variant_name, ty) == [name |-> name, variant_name |-> variant_name, ty |-> ty]

\* A command enum's variants.
EnumDecl(commands) ==
    [kind |-> "enum", options |-> <<>>, free |-> <<>>, command |-> "",
     command_ty |-> "", command_required |-> FALSE, commands |-> commands,
     core |-> FALSE]

\* Action::tuple_len
TupleLen(o) ==
    IF o.action \in {"Push", "SetField", "SetOption"} THEN o.tuple_len ELSE NoLen

\* Action::takes_arg, ParseMethod::takes_arg
TakesArg(o) ==
    /\ o.action \in {"Push", "SetField", "SetOption"}
    /\ o.tuple_len # 0

\* The help_flag test of derive_options_struct.
IsHelpFlag(o) ==
    o.help_flag \/ (~o.no_help_flag /\ o.long = help)

\* Opt::display_form
DisplayForm(o) ==
    IF o.long # NoName THEN <<"-", "-">> \o o.long ELSE <<"-", o.short>>

(***************************************************************************)
(* Names.  A character is a one-character string; "sharp_s" stands for     *)
(* U+00DF, a lowercase letter whose uppercase form is the two characters   *)
(* "SS".                                                                   *)
(***************************************************************************)
LowerLetters == <<"a", "b", "c", "d", "e", "f", "g", "h", "i", "j", "k", "l", "m",
                  "n", "o", "p", "q", "r", "s", "t", "u", "v", "w", "x", "y", "z">>
UpperLetters == <<"A", "B", "C", "D", "E", "F", "G", "H", "I", "J", "K", "L", "M",
                  "N", "O", "P", "Q", "R", "S", "T", "U", "V", "W", "X", "Y", "Z">>

\* The place of ch in letters, 0 when it is not there.
LetterIndex(letters, ch) ==
    IF \E i \in 1..Len(letters) : letters[i] = ch
    THEN CHOOSE i \in 1..Len(letters) : letters[i] = ch
    ELSE 0

\* char::is_lowercase
IsLowercase(ch) == LetterIndex(LowerLetters, ch) # 0 \/ ch = "sharp_s"

\* char::is_whitespace
IsWhitespace(ch) == ch \in {" ", "\t", "\n"}

\* char::to_lowercase, the characters it yields.
ToLowercase(ch) ==
    IF LetterIndex(UpperLetters, ch) # 0
    THEN <<LowerLetters[LetterIndex(UpperLetters, ch)]>>
    ELSE <<ch>>

\* char::to_uppercase, the characters it yields.
ToUppercase(ch) ==
    IF LetterIndex(LowerLetters, ch) # 0
    THEN <<UpperLetters[LetterIndex(LowerLetters, ch)]>>
    ELSE IF ch = "sharp_s" THEN <<"S", "S">>
    ELSE <<ch>>

RECURSIVE MakeCommandNameFrom(_, _)
\* The loop of make_command_name over the characters left, res built so far.
MakeCommandNameFrom(name, res) ==
    IF name = <<>> THEN res
    ELSE MakeCommandNameFrom(Tail(name),
            IF IsLowercase(Head(name)) THEN Append(res, Head(name))
            ELSE (IF res # <<>> THEN Append(res, "-") ELSE res) \o ToLowercase(Head(name)))

\* make_command_name
MakeCommandName(name) == MakeCommandNameFrom(name, <<>>)

\* A command's name with a bug: the `name` attribute is not looked at.
CommandNameDerived(name, var_name) == MakeCommandName(var_name)

\* `opts.name.unwrap_or_else(|| make_command_name(&var_name.to_string()))`
CommandName(name, var_name) ==
    IF name # NoName THEN name ELSE MakeCommandName(var_name)

\* make_long_name
MakeLongName(name) == [i \in 1..Len(name) |-> IF name[i] = "_" THEN "-" ELSE name[i]]

\* make_short_name, from to_uppercase on: to_upper is the uppercase form.
UpperIfFree(to_upper, short) ==
    IF Len(to_upper) > 1 THEN NoShort
    ELSE IF to_upper[1] \notin short THEN to_upper[1]
    ELSE NoShort

\* make_short_name with a bug: the uppercase form is not tried.
MakeShortNameFirstOnly(name, short) ==
    IF Head(name) \notin short THEN Head(name) ELSE NoShort

\* make_short_name; short is the set of the characters of short_names.
MakeShortName(name, short) ==
    IF Head(name) \notin short THEN Head(name)
    ELSE UpperIfFree(ToUppercase(Head(name)), short)

\* The message of a derive error, without its backquotes; NoMessage when
\* derive goes on.
NoMessage == ""

\* validate_long_name
ValidateLongName(name, names) ==
    IF name = <<>> \/ Head(name) = "-" \/ \E i \in 1..Len(name) : IsWhitespace(name[i])
    THEN "not a valid long option"
    ELSE IF name \in names THEN "duplicate option name"
    ELSE NoMessage

\* validate_short_name with a bug: the names taken are not looked at.
ValidateShortNameNoDuplicates(ch, names) ==
    IF ch = "-" \/ IsWhitespace(ch) THEN "not a valid short option" ELSE NoMessage

\* validate_short_name
ValidateShortName(ch, names) ==
    IF ch = "-" \/ IsWhitespace(ch) THEN "not a valid short option"
    ELSE IF ch \in names THEN "duplicate option name"
    ELSE NoMessage

(***************************************************************************)
(* derive_options_struct up to the patterns: the loop over the fields, the *)
(* loop that assigns short names, and the loop that makes the patterns.    *)
(***************************************************************************)
\* A field and its AttrOpts, with the action and type Action::infer reads
\* from the field's type.  kind is "option", "free" or "command".
FieldAttrs(field, name, kind, action, ty) ==
    [field |-> field, name |-> name, kind |-> kind, action |-> action, ty |-> ty,
     tuple_len |-> NoLen, long |-> NoName, short |-> NoShort,
     no_long |-> FALSE, no_short |-> FALSE, required |-> FALSE,
     help_flag |-> FALSE, no_help_flag |-> FALSE, not_required |-> FALSE,
     parse |-> ParseDefault, default |-> NoDefault, meth |-> push]

\* struct DefaultOpts: the attributes given on the type.
DefaultOptsOf(no_help_flag, no_long, no_short, required) ==
    [no_help_flag |-> no_help_flag, no_long |-> no_long, no_short |-> no_short,
     required |-> required]

\* No attribute is given on the type.
NoDefaults == DefaultOptsOf(FALSE, FALSE, FALSE, FALSE)

\* set_defaults with a bug: no_help_flag on the type wins over help_flag on
\* the field.
SetDefaultsTypeWins(f, defaults) ==
    [f EXCEPT
        !.no_help_flag = @ \/ defaults.no_help_flag,
        !.help_flag = @ /\ ~defaults.no_help_flag,
        !.no_short = @ \/ (f.short = NoShort /\ defaults.no_short),
        !.no_long = @ \/ (f.long = NoName /\ defaults.no_long),
        !.required = IF f.not_required THEN FALSE ELSE @ \/ defaults.required]

\* AttrOpts::set_defaults
SetDefaults(f, defaults) ==
    [f EXCEPT
        !.no_help_flag = @ \/ (~f.help_flag /\ defaults.no_help_flag),
        !.no_short = @ \/ (f.short = NoShort /\ defaults.no_short),
        !.no_long = @ \/ (f.long = NoName /\ defaults.no_long),
        !.required = IF f.not_required THEN FALSE ELSE @ \/ defaults.required]

\* AttrOpts::check, run when the attributes of the field are parsed: the
\* attributes of a field that exclude each other.  A field given both
\* `command` and `free` has the kind "command free".
AttrOptsCheck(f) ==
    IF f.kind = "command free" THEN "command and free are mutually exclusive"
    ELSE IF f.help_flag /\ f.no_help_flag
    THEN "help_flag and no_help_flag are mutually exclusive"
    ELSE IF f.no_short /\ f.short # NoShort THEN "no_short and short are mutually exclusive"
    ELSE IF f.no_long /\ f.long # NoName THEN "no_long and long are mutually exclusive"
    ELSE IF f.required /\ f.not_required
    THEN "required and not_required are mutually exclusive"
    ELSE NoMessage

\* The locals of derive_options_struct before the first field; phase and
\* next say which loop runs and the item it is at.
DeriveStart ==
    [phase |-> "fields", next |-> 1, options |-> <<>>, free |-> <<>>,
     command |-> "", command_ty |-> "", command_required |-> FALSE,
     long_names |-> {}, short_names |-> {}, err |-> NoMessage,
     defaults |-> NoDefaults, help_flag |-> <<>>, core |-> FALSE]

\* derive stopped with an error.
DeriveFailed(b, msg) == [b EXCEPT !.phase = "done", !.err = msg]

\* The long name of a field with a bug: `long = ".."` is not looked at.
LongOfField(f) ==
    IF ~f.no_long THEN MakeLongName(f.name) ELSE NoName

\* The long name of a field: `long = ".."`, or the field's name unless no_long.
LongOf(f) ==
    IF f.long = NoName /\ ~f.no_long THEN MakeLongName(f.name) ELSE f.long

\* `opts.help_flag || (!opts.no_help_flag && opts.long == Some("help"))`
HelpFlagTest(f, long) == f.help_flag \/ (~f.no_help_flag /\ long = help)

\* The option pushed for field f, its long name made.
NamedOpt(f, long) ==
    [OptDecl(f.field, f.action, f.ty, f.tuple_len, long, f.short, f.required)
        EXCEPT !.name = f.name, !.no_short = f.no_short,
               !.help_flag = f.help_flag, !.no_help_flag = f.no_help_flag,
               !.parse = f.parse, !.default = f.default, !.meth = f.meth]

\* The body of `for field in fields` for an option field, from
\* validate_long_name on; long is its long name.
ValidatedFieldStep(b, f, long) ==
    IF long # NoName /\ ValidateLongName(long, b.long_names) # NoMessage
    THEN DeriveFailed(b, ValidateLongName(long, b.long_names))
    ELSE IF f.short # NoShort /\ ValidateShortName(f.short, b.short_names) # NoMessage
    THEN DeriveFailed(b, ValidateShortName(f.short, b.short_names))
    ELSE [b EXCEPT
            !.long_names = IF long # NoName THEN @ \cup {long} ELSE @,
            !.short_names = IF f.short # NoShort THEN @ \cup {f.short} ELSE @,
            !.help_flag = IF HelpFlagTest(f, long) THEN Append(@, f.field) ELSE @,
            !.options = Append(@, NamedOpt(f, long))]

\* The body of `for field in fields` for an option field.
OptionFieldStep(b, f) == ValidatedFieldStep(b, f, LongOf(f))

\* The body with a bug: a free field is not refused after a command field.
FieldBodyFreeAfterCommand(b, f) ==
    IF f.kind \in {"command", "command free"}
    THEN IF b.command # "" THEN DeriveFailed(b, "duplicate declaration of command field")
         ELSE IF b.free # <<>>
         THEN DeriveFailed(b, "command and free options are mutually exclusive")
         ELSE [b EXCEPT !.command = f.field, !.command_ty = f.ty,
                        !.command_required = f.required]
    ELSE IF f.kind = "free"
    THEN IF b.free # <<>> /\ b.free[Len(b.free)].action = "Push"
         THEN DeriveFailed(b, "only the final free option may be of type Vec<T>")
         ELSE [b EXCEPT !.free = Append(@,
                  [FreeDecl(f.field, f.action, f.ty, f.required)
                      EXCEPT !.parse = f.parse, !.meth = f.meth])]
    ELSE OptionFieldStep(b, f)

\* The body of `for field in fields`, from the default on: f is the field
\* with the attributes of the type applied.
FieldBody(b, f) ==
    IF f.kind \in {"command", "command free"}
    THEN IF b.command # "" THEN DeriveFailed(b, "duplicate declaration of command field")
         ELSE IF b.free # <<>>
         THEN DeriveFailed(b, "command and free options are mutually exclusive")
         ELSE [b EXCEPT !.command = f.field, !.command_ty = f.ty,
                        !.command_required = f.required]
    ELSE IF f.kind = "free"
    THEN IF b.command # ""
         THEN DeriveFailed(b, "command and free options are mutually exclusive")
         ELSE IF b.free # <<>> /\ b.free[Len(b.free)].action = "Push"
         THEN DeriveFailed(b, "only the final free option may be of type Vec<T>")
         ELSE [b EXCEPT !.free = Append(@,
                  [FreeDecl(f.field, f.action, f.ty, f.required)
                      EXCEPT !.parse = f.parse, !.meth = f.meth])]
    ELSE OptionFieldStep(b, f)

\* The body of `for field in fields`.
FieldStep(b, f) ==
    IF AttrOptsCheck(f) # NoMessage THEN DeriveFailed(b, AttrOptsCheck(f))
    ELSE FieldBody(b, SetDefaults(f, b.defaults))

\* `short_names.push(short); opt.short = short` for option i.
AssignShort(b, i, short) ==
    [b EXCEPT !.short_names = IF short # NoShort THEN @ \cup {short} ELSE @,
              !.options[i].short = short]

\* The body of `for opt in &mut options`: an automatic short name.
ShortStep(b, i) ==
    IF b.options[i].short = NoShort /\ ~b.options[i].no_short
    THEN AssignShort(b, i, MakeShortName(b.options[i].name, b.short_names))
    ELSE b

\* The body of `for opt in &options`: the pattern of the option's arm.
PatternStep(b, i) ==
    IF b.options[i].long = NoName /\ b.options[i].short = NoShort
    THEN DeriveFailed(b, "option has no long or short flags")
    ELSE b

\* The loop goes to its next item, unless its body returned an error.
Advance(c) == IF c.err # NoMessage THEN c ELSE [c EXCEPT !.next = @ + 1]

\* A step of derive_options_struct on the fields: the body of the loop it
\* is in for the item it is at, or the passage to the next loop.
\* derive_optionscore_struct has no loop that assigns short names.
DeriveStep(fields, b) ==
    CASE b.phase = "fields" ->
           IF b.next > Len(fields)
           THEN [b EXCEPT !.phase = IF b.core THEN "patterns" ELSE "shorts", !.next = 1]
           ELSE Advance(FieldStep(b, fields[b.next]))
      [] b.phase = "shorts" ->
           IF b.next > Len(b.options) THEN [b EXCEPT !.phase = "patterns", !.next = 1]
           ELSE Advance(ShortStep(b, b.next))
      [] b.phase = "patterns" ->
           IF b.next > Len(b.options) THEN [b EXCEPT !.phase = "done"]
           ELSE Advance(PatternStep(b, b.next))
      [] OTHER -> b

RECURSIVE DeriveRun(_, _)
\* derive_options_struct run to its end (c is the one step made, computed
\* once).
DeriveRun(fields, b) ==
    IF b.phase = "done" THEN b
    ELSE CHOOSE r \in {DeriveRun(fields, c) : c \in {DeriveStep(fields, b)}} : TRUE

\* The record of the options, free fields and command field derive found.
StructOf(b) ==
    [StructDecl(b.options, b.free, b.command, b.command_ty, b.command_required)
        EXCEPT !.core = b.core]

\* The record derive_options_struct makes of the fields.
DeriveOptionsStruct(fields) == StructOf(DeriveRun(fields, DeriveStart))

\* The record derive_options_struct makes of the fields of a type with
\* attributes of its own.
DeriveOptionsStructWith(defaults, fields) ==
    StructOf(DeriveRun(fields, [DeriveStart EXCEPT !.defaults = defaults]))

\* The record derive_optionscore_struct makes of the fields.
DeriveOptionsCoreStruct(fields) ==
    StructOf(DeriveRun(fields, [DeriveStart EXCEPT !.core = TRUE]))

(***************************************************************************)
(* The records of tests/options.rs derived from their fields.              *)
(***************************************************************************)
\* Opts of test_failed_parse_free
FailOpts ==
    DeriveOptionsStruct(
        <<FieldAttrs("foo", <<"f", "o", "o">>, "free", "SetField", "u32"),
          [FieldAttrs("bar", <<"b", "a", "r">>, "free", "SetField", "u32")
              EXCEPT !.parse = ParseTryFromStr],
          FieldAttrs("baz", <<"b", "a", "z">>, "free", "Push", "u32")>>)

\* Opts of test_parse
ParseOpts ==
    DeriveOptionsStruct(
        <<[FieldAttrs("foo", <<"f", "o", "o">>, "option", "SetOption", "String")
              EXCEPT !.parse = ParseFromStr],
          [FieldAttrs("bar", <<"b", "a", "r">>, "option", "SetOption", "u32")
              EXCEPT !.parse = ParseTryFromStr],
          [FieldAttrs("baz", <<"b", "a", "z">>, "option", "SetOption", "String")
              EXCEPT !.parse = ParseFromStr],
          FieldAttrs("quux", <<"q", "u", "u", "x">>, "option", "SetOption", "u32")>>)

\* Opts of test_opt_long
LongOpts ==
    DeriveOptionsStruct(
        <<[FieldAttrs("foo", <<"f", "o", "o">>, "option", "Switch", "bool")
              EXCEPT !.long = <<"t", "h", "i", "n", "g">>, !.no_short = TRUE]>>)

\* Opts of test_opt_short
ShortOpts ==
    DeriveOptionsStruct(
        <<[FieldAttrs("foo", <<"f", "o", "o">>, "option", "Switch", "bool")
              EXCEPT !.short = "x", !.no_long = TRUE]>>)

\* Opts of test_opt_short_override
OverrideOpts ==
    DeriveOptionsStruct(
        <<[FieldAttrs("option_0", <<"o", "p", "t", "i", "o", "n", "_", "0">>,
                      "option", "Switch", "bool") EXCEPT !.no_long = TRUE],
          [FieldAttrs("option_1", <<"o", "p", "t", "i", "o", "n", "_", "1">>,
                      "option", "Switch", "bool")
              EXCEPT !.short = "o", !.no_long = TRUE]>>)

\* Opts of test_default, without baz
DefaultOpts ==
    DeriveOptionsStruct(
        <<FieldAttrs("foo", <<"f", "o", "o">>, "option", "SetField", "u32"),
          [FieldAttrs("bar", <<"b", "a", "r">>, "option", "SetField", "u32")
              EXCEPT !.default = <<"1", "2", "3">>],
          [FieldAttrs("count", <<"c", "o", "u", "n", "t">>, "option", "Count", "u32")
              EXCEPT !.default = <<"7", "8", "9">>]>>)

\* Opts of test_failed_default, with a help switch
BadDefault ==
    DeriveOptionsStruct(
        <<[FieldAttrs("foo", <<"f", "o", "o">>, "option", "SetField", "u32")
              EXCEPT !.default = <<"l", "o", "l", "w", "u", "t">>],
          FieldAttrs("help", help, "option", "Switch", "bool")>>)

\* Opts of test_help_flag_command
HelpOpts ==
    DeriveOptionsStruct(
        <<FieldAttrs("help", help, "option", "Switch", "bool"),
          FieldAttrs("cmd", <<"c", "m", "d">>, "command", "", "HelpCmd")>>)

\* Opts3 of test_help_flag_command
HelpOpts3 ==
    DeriveOptionsStruct(
        <<FieldAttrs("help", help, "option", "Switch", "bool"),
          [FieldAttrs("help2", <<"h", "e", "l", "p", "2">>, "option", "Switch", "bool")
              EXCEPT !.help_flag = TRUE],
          FieldAttrs("cmd", <<"c", "m", "d">>, "command", "", "HelpCmd")>>)

\* CmdOpts of test_help_flag_command
CmdOpts ==
    DeriveOptionsStruct(<<FieldAttrs("help", help, "option", "Switch", "bool")>>)

\* Cmd of test_help_flag_command
HelpCmd ==
    EnumDecl(<<Cmd(CommandName(NoName, <<"F", "o", "o">>), "Foo", "CmdOpts"),
               Cmd(CommandName(NoName, <<"B", "a", "r">>), "Bar", "CmdOpts"),
               Cmd(CommandName(NoName, <<"B", "a", "z">>), "Baz", "CmdOpts")>>)

\* Opts2 of test_help_flag_command, its command a record with a command of
\* its own.
NestOpts ==
    DeriveOptionsStruct(<<FieldAttrs("cmd", <<"c", "m", "d">>, "command", "", "NestCmd")>>)

NestCmd ==
    EnumDecl(<<Cmd(CommandName(NoName, <<"S", "u", "b">>), "Sub", "HelpOpts")>>)

\* Opts of test_help_flag_command with a required option for its help field.
ReqCmdOpts ==
    DeriveOptionsStruct(
        <<[FieldAttrs("level", <<"l", "e", "v", "e", "l">>, "option", "SetField", "i32")
              EXCEPT !.required = TRUE],
          FieldAttrs("cmd", <<"c", "m", "d">>, "command", "", "HelpCmd")>>)

\* Opts of test_no_help_flag
NoHelpOpts ==
    DeriveOptionsStruct(
        <<[FieldAttrs("help", help, "option", "Switch", "bool")
              EXCEPT !.no_help_flag = TRUE]>>)

\* Opts of test_many_help_flags
ManyHelpOpts ==
    DeriveOptionsStruct(
        <<[FieldAttrs("help", help, "option", "Switch", "bool")
              EXCEPT !.help_flag = TRUE],
          [FieldAttrs("halp", <<"h", "a", "l", "p">>, "option", "Switch", "bool")
              EXCEPT !.help_flag = TRUE],
          [FieldAttrs("help_please", <<"h", "e", "l", "p", "_", "p", "l", "e", "a", "s", "e">>,
                      "option", "Switch", "bool")
              EXCEPT !.help_flag = TRUE]>>)

\* A record of derive(OptionsCore): a switch named help, a required option
\* and one free field.
CoreOpts ==
    DeriveOptionsCoreStruct(
        <<FieldAttrs("help", help, "option", "Switch", "bool"),
          [FieldAttrs("foo", <<"f", "o", "o">>, "option", "SetField", "i32")
              EXCEPT !.required = TRUE],
          FieldAttrs("name", <<"n", "a", "m", "e">>, "free", "SetField", "String")>>)

\* A record of derive(OptionsCore) with neither free fields nor a command.
CoreNone ==
    DeriveOptionsCoreStruct(
        <<[FieldAttrs("verbose", <<"v", "e", "r", "b", "o", "s", "e">>, "option", "Switch", "bool")
              EXCEPT !.short = "v"]>>)

\* Opts of test_opt_count
CountOpts ==
    DeriveOptionsStruct(
        <<FieldAttrs("number", <<"n", "u", "m", "b", "e", "r">>, "option", "Count", "i32")>>)

\* Opts of test_opt_push
PushOpts ==
    DeriveOptionsStruct(
        <<FieldAttrs("thing", <<"t", "h", "i", "n", "g">>, "option", "Push", "String")>>)

\* Opts2 of test_multi
MultiOpts ==
    DeriveOptionsStruct(
        <<[FieldAttrs("foo", <<"f", "o", "o">>, "option", "Push", "i32")
              EXCEPT !.meth = "push_back", !.tuple_len = 2]>>)

\* Opts3 of test_multi, with an option that has the method of its free field.
FrontOpts ==
    DeriveOptionsStruct(
        <<[FieldAttrs("bar", <<"b", "a", "r">>, "option", "Push", "String")
              EXCEPT !.meth = "push_front"],
          [FieldAttrs("free", <<"f", "r", "e", "e">>, "free", "Push", "i32")
              EXCEPT !.meth = "push_front"]>>)

\* A record with a help switch, a required option and a required command
\* whose record has a help switch and a required option of its own.
WaiveOpts ==
    DeriveOptionsStruct(
        <<FieldAttrs("help", help, "option", "Switch", "bool"),
          [FieldAttrs("level", <<"l", "e", "v", "e", "l">>, "option", "SetField", "i32")
              EXCEPT !.required = TRUE],
          [FieldAttrs("cmd", <<"c", "m", "d">>, "command", "", "WaiveCmd")
              EXCEPT !.required = TRUE]>>)

WaiveCmd ==
    EnumDecl(<<Cmd(CommandName(NoName, <<"R", "u", "n">>), "Run", "ReqSub")>>)

ReqSub ==
    DeriveOptionsStruct(
        <<FieldAttrs("help", help, "option", "Switch", "bool"),
          [FieldAttrs("name", <<"n", "a", "m", "e">>, "option", "SetField", "String")
              EXCEPT !.required = TRUE]>>)

\* A record whose required options and required free fields alternate.
OrderOpts ==
    DeriveOptionsStruct(
        <<[FieldAttrs("alpha", <<"a", "l", "p", "h", "a">>, "option", "SetField", "i32")
              EXCEPT !.required = TRUE],
          [FieldAttrs("first", <<"f", "i", "r", "s", "t">>, "free", "SetField", "String")
              EXCEPT !.required = TRUE],
          [FieldAttrs("beta", <<"b", "e", "t", "a">>, "option", "SetField", "i32")
              EXCEPT !.required = TRUE],
          [FieldAttrs("second", <<"s", "e", "c", "o", "n", "d">>, "free", "SetField", "String")
              EXCEPT !.required = TRUE]>>)

(***************************************************************************)
(* The records of tests/options.rs the model parses.  The long names of    *)
(* the records written out are cut to two letters, but for "help" and      *)
(* "foo"; the other records are derived from their fields.                 *)
(***************************************************************************)
Registry(ty) ==
    CASE ty = "ZeroOpts" ->
           StructDecl(<<OptDecl("switch", "Switch", "bool", NoLen, <<"s", "w">>, "s", FALSE),
                        OptDecl("number", "Count", "i32", NoLen, <<"n", "u">>, "n", FALSE),
                        OptDecl("unit", "SetField", "i32", 0, <<"u", "n">>, "u", FALSE)>>,
                      <<>>, "", "", FALSE)
      [] ty = "OneOpts" ->
           StructDecl(<<OptDecl("foo", "SetField", "i32", NoLen, <<"f", "o">>, "f", TRUE),
                        OptDecl("opt", "SetOption", "String", NoLen, <<"o", "p">>, "o", FALSE),
                        OptDecl("thing", "Push", "String", NoLen, <<"t", "h">>, "t", FALSE),
                        OptDecl("single", "SetField", "i32", 1, <<"s", "i">>, "s", FALSE)>>,
                      <<>>, "", "", FALSE)
      [] ty = "TupleOpts" ->
           StructDecl(<<OptDecl("pair", "SetOption", "i32", 2, <<"p", "a">>, "p", FALSE),
                        OptDecl("triple", "Push", "i32", 3, <<"t", "r">>, "t", FALSE)>>,
                      <<>>, "", "", FALSE)
      [] ty = "ReqOpts" ->
           StructDecl(<<OptDecl("thing", "SetOption", "String", NoLen, <<"t", "h">>, "t", TRUE),
                        OptDecl("help", "Switch", "bool", NoLen, help, "h", FALSE),
                        [OptDecl("secondary_help", "Switch", "bool", NoLen, <<"s", "e">>, "s", FALSE)
                            EXCEPT !.help_flag = TRUE],
                        OptDecl("verbose", "Switch", "bool", NoLen, <<"v", "e">>, "v", FALSE)>>,
                      <<FreeDecl("bar", "SetField", "i32", TRUE)>>, "", "", FALSE)
      [] ty = "Opts" ->
           StructDecl(<<OptDecl("help", "Switch", "bool", NoLen, help, "h", FALSE)>>,
                      <<>>, "command", "Command", TRUE)
      [] ty = "Command" ->
           EnumDecl(<<Cmd(CommandName(NoName, <<"F", "o", "o">>), "Foo", "FooOpts"),
                      Cmd(CommandName(NoName, <<"B", "a", "r">>), "Bar", "BarOpts"),
                      Cmd(CommandName(<<"b", "z", "z", "z">>, <<"B", "a", "z">>), "Baz", "NoOpts"),
                      Cmd(CommandName(NoName, <<"B", "o", "o", "D", "o">>), "BooDo", "NoOpts")>>)
      [] ty = "FooOpts" ->
           StructDecl(<<OptDecl("foo", "SetOption", "String", NoLen, <<"f", "o", "o">>, "f", FALSE)>>,
                      <<>>, "", "", FALSE)
      [] ty = "BarOpts" ->
           StructDecl(<<>>, <<FreeDecl("free", "Push", "String", FALSE)>>, "", "", FALSE)
      [] ty = "NoOpts" ->
           StructDecl(<<>>, <<>>, "", "", FALSE)
      [] ty = "ManyOpts" ->
           StructDecl(<<OptDecl("verbose", "Switch", "bool", NoLen, <<"v", "e">>, "v", FALSE)>>,
                      <<FreeDecl("alpha", "SetField", "u32", FALSE),
                        FreeDecl("bravo", "SetOption", "String", FALSE),
                        FreeDecl("charlie", "SetOption", "u32", FALSE),
                        FreeDecl("rest", "Push", "String", FALSE)>>, "", "", FALSE)
      [] ty = "FailOpts" -> FailOpts
      [] ty = "ParseOpts" -> ParseOpts
      [] ty = "LongOpts" -> LongOpts
      [] ty = "ShortOpts" -> ShortOpts
      [] ty = "OverrideOpts" -> OverrideOpts
      [] ty = "DefaultOpts" -> DefaultOpts
      [] ty = "BadDefault" -> BadDefault
      [] ty = "HelpOpts" -> HelpOpts
      [] ty = "HelpOpts3" -> HelpOpts3
      [] ty = "CmdOpts" -> CmdOpts
      [] ty = "HelpCmd" -> HelpCmd
      [] ty = "NestOpts" -> NestOpts
      [] ty = "NestCmd" -> NestCmd
      [] ty = "ReqCmdOpts" -> ReqCmdOpts
      [] ty = "NoHelpOpts" -> NoHelpOpts
      [] ty = "ManyHelpOpts" -> ManyHelpOpts
      [] ty = "CoreOpts" -> CoreOpts
      [] ty = "CoreNone" -> CoreNone
      [] ty = "CountOpts" -> CountOpts
      [] ty = "PushOpts" -> PushOpts
      [] ty = "MultiOpts" -> MultiOpts
      [] ty = "FrontOpts" -> FrontOpts
      [] ty = "WaiveOpts" -> WaiveOpts
      [] ty = "WaiveCmd" -> WaiveCmd
      [] ty = "ReqSub" -> ReqSub
      [] ty = "OrderOpts" -> OrderOpts

\* The records parse_args is called on.
TopTypes == {"ZeroOpts", "OneOpts", "TupleOpts", "ReqOpts", "Opts", "ManyOpts", "FailOpts",
             "ParseOpts", "LongOpts", "ShortOpts", "OverrideOpts", "DefaultOpts", "BadDefault",
             "HelpOpts", "HelpOpts3", "NestOpts", "ReqCmdOpts", "NoHelpOpts", "ManyHelpOpts",
             "CoreOpts", "CoreNone"}

\* The raw arguments the argument lists given to a record are made of.
TypePool(ty) ==
    CASE ty = "ZeroOpts" ->
           { <<"-", "-", "s", "w", "=", "1">>, <<"-", "-", "n", "u", "=", "1">>,
             <<"-", "-", "u", "n", "=", "1">>, <<"-", "-", "s", "w">>,
             <<"-", "-", "u", "n">>, <<"-", "s", "n", "u">>, <<"-", "n">>,
             <<"-", "-">>, <<"x">> }
      [] ty = "OneOpts" ->
           { <<"-", "-", "f", "o", "=", "1">>, <<"-", "-", "f", "o", "=", "x">>,
             <<"-", "-", "f", "o">>, <<"-", "f", "1">>, <<"1">>, <<"x">>,
             <<"-", "-", "o", "p", "=", "x">>, <<"-", "o">>,
             <<"-", "-", "t", "h", "=", "x">>, <<"-", "t">>,
             <<"-", "-", "s", "i", "=", "1">>, <<"-", "-", "s", "i">> }
      [] ty = "TupleOpts" ->
           { <<"-", "-", "p", "a", "=", "0">>, <<"-", "-", "p", "a">>, <<"-", "p">>,
             <<"-", "p", "1">>, <<"-", "-", "t", "r", "=", "1">>, <<"-", "-", "t", "r">>,
             <<"0">>, <<"1">>, <<"x">>, <<"-", "1">> }
      [] ty = "ReqOpts" ->
           { <<"-", "h">>, <<"-", "-", "h", "e", "l", "p">>, <<"-", "-", "s", "e">>,
             <<"-", "v">>, <<"-", "-", "t", "h", "=", "x">>, <<"-", "t", "x">>,
             <<"-", "-", "t", "h">>, <<"-", "t">>, <<"1">>, <<"x">> }
      [] ty = "Opts" ->
           { <<"-", "h">>, <<"-", "-", "h", "e", "l", "p">>, <<"f", "o", "o">>,
             <<"b", "a", "r">>, <<"b", "z", "z", "z">>, <<"b", "a", "z">>,
             <<"-", "-", "f", "o", "o", "=", "x">>, <<"-", "f">>, <<"-", "-">>, <<"x">>,
             <<"b", "o", "o", "-", "d", "o">>, <<"F", "o", "o">> }
      [] ty = "ManyOpts" ->
           { <<"1">>, <<"2">>, <<"x">>, <<"-", "v">> }
      [] ty = "FailOpts" ->
           { <<"0">>, <<"x">> }
      [] ty = "ParseOpts" ->
           { <<"-", "f", "x">>, <<"-", "-", "b", "a", "r", "=", "x">>,
             <<"-", "-", "b", "a", "r", "=", "1">>, <<"-", "-", "b", "a", "z">>, <<"x">>,
             <<"-", "q">>, <<"-", "-", "q", "u", "u", "x">>, <<"-", "B", "x">>, <<"1">> }
      [] ty = "LongOpts" ->
           { <<"-", "-", "t", "h", "i", "n", "g">>, <<"-", "f">>, <<"-", "-", "f", "o", "o">>,
             <<"-", "-", "f", "o", "o", "=", "1">>, <<"-", "-", "t", "h", "i", "n", "g", "=", "1">>,
             <<"-", "t">> }
      [] ty = "ShortOpts" ->
           { <<"-", "x">>, <<"-", "f">>, <<"-", "-", "f", "o", "o">>,
             <<"-", "-", "f", "o", "o", "=", "1">>, <<"-", "x", "f">> }
      [] ty = "OverrideOpts" ->
           { <<"-", "o">>, <<"-", "O">>, <<"-", "o", "O">>, <<"-", "-", "o", "p", "t", "i", "o", "n", "-", "0">> }
      [] ty = "DefaultOpts" ->
           { <<"-", "c">>, <<"-", "-", "b", "a", "r", "=", "1">>, <<"-", "f", "1">> }
      [] ty = "BadDefault" ->
           { <<"-", "-", "f", "o", "o", "=", "1">>, <<"-", "-", "h", "e", "l", "p">>, <<"x">> }
      [] ty = "HelpOpts" ->
           { <<"-", "h">>, <<"f", "o", "o">>, <<"b", "a", "r">>, <<"x">> }
      [] ty = "HelpOpts3" ->
           { <<"-", "h">>, <<"-", "-", "h", "e", "l", "p", "2">>, <<"b", "a", "z">> }
      [] ty = "NestOpts" ->
           { <<"s", "u", "b">>, <<"f", "o", "o">>, <<"-", "h">> }
      [] ty = "ReqCmdOpts" ->
           { <<"-", "l", "1">>, <<"f", "o", "o">>, <<"-", "h">> }
      [] ty = "NoHelpOpts" ->
           { <<"-", "-", "h", "e", "l", "p">>, <<"-", "h">> }
      [] ty = "ManyHelpOpts" ->
           { <<"-", "-", "h", "e", "l", "p">>, <<"-", "-", "h", "a", "l", "p">>,
             <<"-", "-", "h", "e", "l", "p", "-", "p", "l", "e", "a", "s", "e">> }
      [] ty = "CoreOpts" ->
           { <<"-", "-", "h", "e", "l", "p">>, <<"-", "-", "f", "o", "o", "=", "1">>,
             <<"-", "x">>, <<"-", "-", "u", "n", "=", "1">>, <<"a">>, <<"-", "h">> }
      [] ty = "CoreNone" ->
           { <<"-", "v">>, <<"a">>, <<"-", "x">> }

(***************************************************************************)
(* enum ErrorKind.  option is the option as typed or a raw argument,       *)
(* field the name of a free field.                                         *)
(***************************************************************************)
Error(kind, option, field, expected, found) ==
    [kind |-> kind, option |-> option, field |-> field,
     expected |-> expected, found |-> found]

NoError == Error("none", <<>>, "", 0, 0)
\* The message of the failed conversion is left out.
FailedParse(option) == Error("FailedParse", option, "", 0, 0)
FailedParseWithName(field) == Error("FailedParse", <<>>, field, 0, 0)
InsufficientArguments(option, expected, found) ==
    Error("InsufficientArguments", option, "", expected, found)
MissingArgument(option) == Error("MissingArgument", option, "", 0, 0)
MissingRequired(option) == Error("MissingRequired", option, "", 0, 0)
MissingRequiredCommand == Error("MissingRequiredCommand", <<>>, "", 0, 0)
MissingRequiredFree == Error("MissingRequiredFree", <<>>, "", 0, 0)
UnexpectedArgument(option) == Error("UnexpectedArgument", option, "", 0, 0)
UnexpectedSingleArgument(option, n) == Error("UnexpectedSingleArgument", option, "", n, 0)
UnexpectedFree(arg) == Error("UnexpectedFree", arg, "", 0, 0)
UnrecognizedCommand(name) == Error("UnrecognizedCommand", name, "", 0, 0)
UnrecognizedLongOption(name) == Error("UnrecognizedLongOption", name, "", 0, 0)
UnrecognizedShortOption(ch) == Error("UnrecognizedShortOption", ch, "", 0, 0)
\* The literal is kept in option.
FailedParseDefault(field, literal) == Error("FailedParseDefault", literal, field, 0, 0)

\* Opt::to_string
OptToString(tok) ==
    CASE tok.kind = "Short" -> <<"-">> \o tok.name
      [] tok.kind \in {"Long", "LongWithArg"} -> <<"-", "-">> \o tok.name
      [] OTHER -> <<"f", "r", "e", "e">>

\* Error::unrecognized_option
UnrecognizedOption(tok) ==
    IF tok.kind = "Short" THEN UnrecognizedShortOption(tok.name)
    ELSE UnrecognizedLongOption(tok.name)

(***************************************************************************)
(* Values: FromStr and Default of the field types.                         *)
(***************************************************************************)
Digit == {"0", "1", "2", "3", "4", "5", "6", "7", "8", "9"}
DigitValue(c) ==
    CASE c = "0" -> 0 [] c = "1" -> 1 [] c = "2" -> 2 [] c = "3" -> 3 [] c = "4" -> 4
      [] c = "5" -> 5 [] c = "6" -> 6 [] c = "7" -> 7 [] c = "8" -> 8 [] c = "9" -> 9

IsDigits(s) == s # <<>> /\ \A i \in 1..Len(s) : s[i] \in Digit

RECURSIVE ToNat(_)
ToNat(s) == IF s = <<>> THEN 0 ELSE 10 * ToNat(SubSeq(s, 1, Len(s) - 1)) + DigitValue(s[Len(s)])

\* <T as FromStr>::from_str: i32 reads an optional sign and decimal digits, u32
\* an optional "+" and decimal digits (the strings of the model are too short
\* to overflow), String takes any text.
FromStr(ty, s) ==
    CASE ty = "String" -> [ok |-> TRUE, val |-> s]
      [] ty = "u32" ->
           IF IsDigits(s) THEN [ok |-> TRUE, val |-> ToNat(s)]
           ELSE IF s # <<>> /\ Head(s) = "+" /\ IsDigits(Tail(s))
                THEN [ok |-> TRUE, val |-> ToNat(Tail(s))]
                ELSE [ok |-> FALSE, val |-> 0]
      [] ty = "i32" ->
           IF IsDigits(s) THEN [ok |-> TRUE, val |-> ToNat(s)]
           ELSE IF s # <<>> /\ Head(s) \in {"+", "-"} /\ IsDigits(Tail(s))
                THEN [ok |-> TRUE, val |-> IF Head(s) = "-" THEN 0 - ToNat(Tail(s)) ELSE ToNat(Tail(s))]
                ELSE [ok |-> FALSE, val |-> 0]

NoneVal == [some |-> FALSE, val |-> <<>>]
SomeVal(v) == [some |-> TRUE, val |-> v]

\* ParseFn::make_parse_action, the conversion: from_str of the field's type,
\* the function of parse(from_str = ".."), which takes any text and does not
\* fail, or the function of parse(try_from_str = ".."), which is str::parse
\* of the field's type in the records of the model.
MakeParseAction(d, s) ==
    CASE d.parse = ParseFromStr -> [ok |-> TRUE, val |-> s]
      [] d.parse = ParseTryFromStr -> FromStr(d.ty, s)
      [] OTHER -> FromStr(d.ty, s)

\* ParseFn::make_parse_default_action: the conversion of `default = ".."`.
MakeParseDefaultAction(d) == MakeParseAction(d, d.default)

\* The value of a field in `let mut _result = ..`: its `default`, converted,
\* or Default::default().
DefaultOf(d) ==
    CASE d.default # NoDefault -> MakeParseDefaultAction(d).val
      [] d.action = "Switch" -> FALSE
      [] d.action = "Count" -> 0
      [] d.action = "SetOption" -> NoneVal
      [] d.action = "Push" -> <<>>
      [] OTHER -> IF "tuple_len" \in DOMAIN d /\ d.tuple_len # NoLen
                  THEN [i \in 1..d.tuple_len |-> IF d.ty \in {"i32", "u32"} THEN 0 ELSE <<>>]
                  ELSE IF d.ty \in {"i32", "u32"} THEN 0 ELSE <<>>

(***************************************************************************)
(* The parse function derive_options_struct generates, run on a frame: the *)
(* locals of one call of parse.                                            *)
(*   ty            the record being parsed                                 *)
(*   variant_name  the command variant that wraps it ("" at the top)       *)
(*   result        _result, a value for every field                        *)
(*   used          _used, the required fields marked                       *)
(*   free_counter  _free_counter                                           *)
(*   broke         the loop was left by `break`                            *)
(*   supplied      the fields a token was handled for (kept for the        *)
(*                 properties; the code has no such local)                 *)
(*   frees         the Free tokens the call was given, in order (kept for  *)
(*                 the properties)                                         *)
(***************************************************************************)
FieldDecls(reg) ==
    {reg.options[i] : i \in 1..Len(reg.options)} \cup {reg.free[i] : i \in 1..Len(reg.free)}

FieldNames(reg) ==
    {d.field : d \in FieldDecls(reg)} \cup (IF reg.command = "" THEN {} ELSE {reg.command})

\* `let mut _result = ..; let mut _free_counter = 0usize; let mut _used = ..`.
NewFrame(ty, variant_name) ==
    LET reg == Registry(ty)
    IN  [ty |-> ty,
         variant_name |-> variant_name,
         result |-> [f \in FieldNames(reg) |->
                       IF f = reg.command THEN NoneVal
                       ELSE DefaultOf(CHOOSE d \in FieldDecls(reg) : d.field = f)],
         used |-> {},
         free_counter |-> 0,
         broke |-> FALSE,
         supplied |-> {},
         frees |-> <<>>]

\* The defaults with a bug: a default that does not convert is let through.
DefaultErrorNever(reg) == NoError

\* The `?` of the defaults in `let mut _result = ..`: the error of the first
\* field whose default does not convert, NoError when all do.
DefaultError(reg) ==
    LET bad == {i \in 1..Len(reg.options) :
                   /\ reg.options[i].default # NoDefault
                   /\ ~MakeParseDefaultAction(reg.options[i]).ok}
        first == CHOOSE i \in bad : \A j \in bad : i <= j
    IN  IF bad = {} THEN NoError
        ELSE FailedParseDefault(reg.options[first].field, reg.options[first].default)

\* What handling a token leaves: the parser, the frame, and the error if any.
Handled(p, frame, err) == [p |-> p, frame |-> frame, err |-> err]

\* Opt::mark_used, FreeOpt::mark_used
MarkUsed(d, frame) ==
    IF d.required THEN [frame EXCEPT !.used = @ \cup {d.field}] ELSE frame

\* The method with a bug: it is applied twice.
PushedTwice(meth, list, val) ==
    IF meth = "push_front" THEN <<val, val>> \o list ELSE list \o <<val, val>>

\* `_result.#field.#meth(#act)`: Vec::push and VecDeque::push_back put the
\* value at the end, VecDeque::push_front at the front.
Pushed(meth, list, val) ==
    IF meth = "push_front" THEN <<val>> \o list ELSE Append(list, val)

\* The assignment with a bug: Push puts the value in front.
ApplyActionPushFront(d, frame, val) ==
    [frame EXCEPT !.result[d.field] =
        CASE d.action = "Count" -> @ + 1
          [] d.action = "Push" -> <<val>> \o @
          [] d.action = "SetField" -> val
          [] d.action = "SetOption" -> SomeVal(val)
          [] d.action = "Switch" -> TRUE,
     !.supplied = @ \cup {d.field}]

\* The assignment with a bug: Count sets the field to one.
ApplyActionCountSet(d, frame, val) ==
    [frame EXCEPT !.result[d.field] =
        CASE d.action = "Count" -> 1
          [] d.action = "Push" -> Pushed(d.meth, @, val)
          [] d.action = "SetField" -> val
          [] d.action = "SetOption" -> SomeVal(val)
          [] d.action = "Switch" -> TRUE,
     !.supplied = @ \cup {d.field}]

\* The assignment of make_action / make_action_arg, by action.
ApplyAction(d, frame, val) ==
    [frame EXCEPT !.result[d.field] =
        CASE d.action = "Count" -> @ + 1
          [] d.action = "Push" -> Pushed(d.meth, @, val)
          [] d.action = "SetField" -> val
          [] d.action = "SetOption" -> SomeVal(val)
          [] d.action = "Switch" -> TRUE,
     !.supplied = @ \cup {d.field}]

\* What fetching and converting an option's value leaves.
Fetched(p, ok, val, err) == [p |-> p, ok |-> ok, val |-> val, err |-> err]

RECURSIVE TupleArgsFoundZero(_, _, _, _, _)
\* make_action_type, tuple_len Some(n), with a bug: _found is always 0.
TupleArgsFoundZero(o, p, tok, found, acc) ==
    IF found = o.tuple_len THEN Fetched(p, TRUE, acc, NoError)
    ELSE LET a == NextArg(p)
             v == MakeParseAction(o, a.ret.value)
         IN  IF a.ret = None
             THEN Fetched(a.p, FALSE, acc,
                          InsufficientArguments(OptToString(tok), o.tuple_len, 0))
             ELSE IF ~v.ok THEN Fetched(a.p, FALSE, acc, FailedParse(OptToString(tok)))
             ELSE TupleArgsFoundZero(o, a.p, tok, found + 1, Append(acc, v.val))

RECURSIVE TupleArgs(_, _, _, _, _)
\* ParseMethod::make_action_type, tuple_len Some(n): n times next_arg and parse.
TupleArgs(o, p, tok, found, acc) ==
    IF found = o.tuple_len THEN Fetched(p, TRUE, acc, NoError)
    ELSE LET a == NextArg(p)
             v == MakeParseAction(o, a.ret.value)
         IN  IF a.ret = None
             THEN Fetched(a.p, FALSE, acc,
                          InsufficientArguments(OptToString(tok), o.tuple_len, found))
             ELSE IF ~v.ok THEN Fetched(a.p, FALSE, acc, FailedParse(OptToString(tok)))
             ELSE TupleArgs(o, a.p, tok, found + 1, Append(acc, v.val))

\* make_action_type with a bug: an absent value is read as the empty string.
MakeActionTypeEmpty(o, p, tok) ==
    IF o.tuple_len = NoLen
    THEN LET a == NextArg(p)
             v == MakeParseAction(o, a.ret.value)
         IN  IF ~v.ok THEN Fetched(a.p, FALSE, <<>>, FailedParse(OptToString(tok)))
             ELSE Fetched(a.p, TRUE, v.val, NoError)
    ELSE TupleArgs(o, p, tok, 0, <<>>)

\* ParseMethod::make_action_type
MakeActionType(o, p, tok) ==
    IF o.tuple_len = NoLen
    THEN LET a == NextArg(p)
             v == MakeParseAction(o, a.ret.value)
         IN  IF a.ret = None THEN Fetched(a.p, FALSE, <<>>, MissingArgument(OptToString(tok)))
             ELSE IF ~v.ok THEN Fetched(a.p, FALSE, <<>>, FailedParse(OptToString(tok)))
             ELSE Fetched(a.p, TRUE, v.val, NoError)
    ELSE TupleArgs(o, p, tok, 0, <<>>)

\* Opt::make_action: the arm of `Long(long) | Short(short)`.
MakeAction(o, frame, p, tok) ==
    LET marked == MarkUsed(o, frame)
    IN  IF o.action \in {"Count", "Switch"}
        THEN Handled(p, ApplyAction(o, marked, TRUE), NoError)
        ELSE LET a == MakeActionType(o, p, tok)
             IN  IF a.ok THEN Handled(a.p, ApplyAction(o, marked, a.val), NoError)
                 ELSE Handled(a.p, marked, a.err)

\* make_action_arg with a bug: the error names the token with its value.
MakeActionArgNamesValue(o, frame, p, tok) ==
    LET marked == MarkUsed(o, frame)
        v == MakeParseAction(o, tok.value)
    IN  IF v.ok THEN Handled(p, ApplyAction(o, marked, v.val), NoError)
        ELSE Handled(p, marked, FailedParse(OptToString(tok) \o <<"=">> \o tok.value))

\* Opt::make_action_arg: the value attached to the token is converted.
MakeActionArg(o, frame, p, tok) ==
    LET marked == MarkUsed(o, frame)
        v == MakeParseAction(o, tok.value)
    IN  IF v.ok THEN Handled(p, ApplyAction(o, marked, v.val), NoError)
        ELSE Handled(p, marked, FailedParse(OptToString(tok)))

\* The arm of `LongWithArg(long, _)`, with a bug: takes_arg is tested before
\* tuple_len, so a tuple option converts the one value attached.
LongWithArgArmTakesArgFirst(o, frame, p, tok) ==
    IF TakesArg(o) THEN MakeActionArg(o, frame, p, tok)
    ELSE Handled(p, frame, UnexpectedArgument(OptToString(tok)))

\* The arm of `LongWithArg(long, _)` generated for an option with a long name.
LongWithArgArm(o, frame, p, tok) ==
    IF TupleLen(o) # NoLen
    THEN Handled(p, frame, UnexpectedSingleArgument(OptToString(tok), TupleLen(o)))
    ELSE IF TakesArg(o) THEN MakeActionArg(o, frame, p, tok)
    ELSE Handled(p, frame, UnexpectedArgument(OptToString(tok)))

\* The token matches the pattern `Long(long) | Short(short)` of o.
PlainMatches(o, tok) ==
    \/ tok.kind = "Long" /\ o.long # NoName /\ tok.name = o.long
    \/ tok.kind = "Short" /\ o.short # NoShort /\ tok.name = <<o.short>>

\* The token matches the pattern `LongWithArg(long, _)` of o.
WithArgMatches(o, tok) ==
    tok.kind = "LongWithArg" /\ o.long # NoName /\ tok.name = o.long

\* The option whose arm the match takes for the token: the first in
\* declaration order, 0 when the token falls through to `_`.
MatchedOption(reg, tok) ==
    LET hits == {i \in 1..Len(reg.options) :
                    PlainMatches(reg.options[i], tok) \/ WithArgMatches(reg.options[i], tok)}
    IN  IF hits = {} THEN 0 ELSE CHOOSE i \in hits : \A j \in hits : i <= j

\* The free fields filled by position: all, but for a final Vec field.
FixedFree(reg) ==
    IF reg.free # <<>> /\ reg.free[Len(reg.free)].action = "Push"
    THEN SubSeq(reg.free, 1, Len(reg.free) - 1)
    ELSE reg.free

\* The assignment of handle_free to a free field.
AssignFree(d, frame, p, tok) ==
    LET marked == MarkUsed(d, frame)
        v == MakeParseAction(d, tok.value)
    IN  IF v.ok THEN Handled(p, ApplyAction(d, marked, v.val), NoError)
        ELSE Handled(p, marked, FailedParseWithName(d.field))

\* The error arms with a bug: derive(OptionsCore) returns the error too.
OrIgnoredNever(reg, err) == err

\* The error arms with a bug: derive(Options) goes on to the next token.
OrIgnoredAlways(reg, err) == NoError

\* An error arm of derive(Options), which derive(OptionsCore) leaves empty.
OrIgnored(reg, err) == IF reg.core THEN NoError ELSE err

\* handle_free with a bug: _free_counter is not incremented.
HandleFreeNoCount(reg, frame, p, tok) ==
    IF reg.free = <<>> THEN Handled(p, frame, OrIgnored(reg, UnexpectedFree(tok.value)))
    ELSE IF frame.free_counter < Len(FixedFree(reg))
    THEN AssignFree(FixedFree(reg)[frame.free_counter + 1], frame, p, tok)
    ELSE IF reg.free[Len(reg.free)].action = "Push"
    THEN AssignFree(reg.free[Len(reg.free)], frame, p, tok)
    ELSE Handled(p, frame, OrIgnored(reg, UnexpectedFree(tok.value)))

\* handle_free of a record with free fields, or with neither free fields nor
\* a command field.
HandleFree(reg, frame, p, tok) ==
    IF reg.free = <<>> THEN Handled(p, frame, OrIgnored(reg, UnexpectedFree(tok.value)))
    ELSE IF frame.free_counter < Len(FixedFree(reg))
    THEN AssignFree(FixedFree(reg)[frame.free_counter + 1],
                    [frame EXCEPT !.free_counter = @ + 1], p, tok)
    ELSE IF reg.free[Len(reg.free)].action = "Push"
    THEN AssignFree(reg.free[Len(reg.free)], frame, p, tok)
    ELSE Handled(p, frame, OrIgnored(reg, UnexpectedFree(tok.value)))

\* The body of `match _opt` for a token that does not select a command.
HandleToken(reg, frame, p, tok) ==
    LET i == MatchedOption(reg, tok)
    IN  IF tok.kind = "Free" THEN HandleFree(reg, frame, p, tok)
        ELSE IF i = 0 THEN Handled(p, frame, OrIgnored(reg, UnrecognizedOption(tok)))
        ELSE IF tok.kind = "LongWithArg" THEN LongWithArgArm(reg.options[i], frame, p, tok)
        ELSE MakeAction(reg.options[i], frame, p, tok)

\* A Free token is handled by the command branch of handle_free.
SelectsCommand(reg, tok) ==
    tok.kind = "Free" /\ reg.free = <<>> /\ reg.command # ""

\* parse_command with a bug: the first arm matches every name.
MatchedCommandAnyName(reg, name) ==
    IF reg.commands = <<>> THEN 0 ELSE 1

\* The variant parse_command of a command enum takes for the name: the first
\* arm that matches, 0 for `_`.  parse_command of a struct matches nothing.
MatchedCommand(reg, name) ==
    LET hits == {i \in 1..Len(reg.commands) : reg.commands[i].name = name}
    IN  IF hits = {} THEN 0 ELSE CHOOSE i \in hits : \A j \in hits : i <= j

\* The record a command variant's arm parses.
CommandType(cmd) == cmd.ty

\* The delegation with a bug: the command's parse is given a new Parser on
\* the raw arguments left.
DelegatedAnew(p) == ParserNew(p.args, p.style)

\* `parse_command(_free, _parser)`, `<#ty as Options>::parse(_parser)`: the
\* command's parse is given the Parser of its caller, as next_opt left it.
Delegated(p) == p

\* `required` with a bug: the options are checked before the command and the
\* free fields.
RequiredOptionsFirst(reg) ==
    [i \in 1..Len(SelectSeq(reg.options, LAMBDA d : d.required)) |->
          [field |-> SelectSeq(reg.options, LAMBDA d : d.required)[i].field,
           err |-> MissingRequired(DisplayForm(SelectSeq(reg.options, LAMBDA d : d.required)[i]))]]
    \o (IF reg.command # "" /\ reg.command_required
        THEN <<[field |-> reg.command, err |-> MissingRequiredCommand]>> ELSE <<>>)
    \o [i \in 1..Len(SelectSeq(reg.free, LAMBDA d : d.required)) |->
          [field |-> SelectSeq(reg.free, LAMBDA d : d.required)[i].field,
           err |-> MissingRequiredFree]]

\* The fields of `required`, in the order they are checked: the command or
\* the free fields, then the options.
Required(reg) ==
    (IF reg.command # "" /\ reg.command_required
     THEN <<[field |-> reg.command, err |-> MissingRequiredCommand]>> ELSE <<>>)
    \o [i \in 1..Len(SelectSeq(reg.free, LAMBDA d : d.required)) |->
          [field |-> SelectSeq(reg.free, LAMBDA d : d.required)[i].field,
           err |-> MissingRequiredFree]]
    \o [i \in 1..Len(SelectSeq(reg.options, LAMBDA d : d.required)) |->
          [field |-> SelectSeq(reg.options, LAMBDA d : d.required)[i].field,
           err |-> MissingRequired(DisplayForm(SelectSeq(reg.options, LAMBDA d : d.required)[i]))]]

\* The help-flag condition with a bug: the help flags are not looked at.
NoHelpFlagSetUnread(reg, frame) == TRUE

\* The help-flag condition with a bug: the help flags of the command the
\* record stored are looked at as well, as help_requested does.
NoHelpFlagSetBelow(reg, frame) ==
    /\ \A i \in 1..Len(reg.options) :
          IsHelpFlag(reg.options[i]) => ~frame.result[reg.options[i].field]
    /\ (reg.command # "" /\ frame.result[reg.command].some) =>
          LET v == frame.result[reg.command].val
              cmds == Registry(reg.command_ty).commands
              c == cmds[CHOOSE i \in 1..Len(cmds) : cmds[i].variant_name = v.variant_name]
              sub == Registry(CommandType(c))
          IN  \A i \in 1..Len(sub.options) :
                  IsHelpFlag(sub.options[i]) => ~v.opts[sub.options[i].field]

\* `true && !_result.help_flag ..`: no help flag of the record is set.
NoHelpFlagSet(reg, frame) ==
    \A i \in 1..Len(reg.options) :
        IsHelpFlag(reg.options[i]) => ~frame.result[reg.options[i].field]

\* The checks after the loop: the error of the first required field not
\* marked, NoError when there is none or a help flag is set.
RequiredCheck(reg, frame) ==
    LET req == Required(reg)
        unmet == {i \in 1..Len(req) : req[i].field \notin frame.used}
    IN  IF NoHelpFlagSet(reg, frame) /\ unmet # {}
        THEN req[CHOOSE i \in unmet : \A j \in unmet : i <= j].err
        ELSE NoError

\* Result<Self, Error> of the outermost parse; "running" until it returns.
NotEntered == [tag |-> "new", value |-> <<>>, err |-> NoError]
Running == [tag |-> "running", value |-> <<>>, err |-> NoError]
Ok(value) == [tag |-> "Ok", value |-> value, err |-> NoError]
Err(e) == [tag |-> "Err", value |-> <<>>, err |-> e]

\* The command value a finished subcommand parse is wrapped in.
CommandValue(frame) == SomeVal([variant_name |-> frame.variant_name, opts |-> frame.result])

\* The process that called parse_args_or_exit: running, exited with a status
\* code after writing e to stderr or the usage to stdout, or given the
\* record.  command_str is the text after args[0] in the "Usage:" line,
\* usage the record whose usage() is printed, command_list the command enum
\* whose usage() is printed under "Available commands:", "" for None.
NotExited ==
    [status |-> "running", code |-> 0, stderr |-> NoError, command_str |-> <<>>,
     usage |-> "", command_list |-> "", value |-> <<>>]
Exited(code, e, command_str, usage, command_list) ==
    [status |-> "exited", code |-> code, stderr |-> e, command_str |-> command_str,
     usage |-> usage, command_list |-> command_list, value |-> <<>>]
Returned(value) == [NotExited EXCEPT !.status = "returned", !.value = value]

\* The variant of command enum cmds a value of it has.
VariantOf(cmds, v) ==
    cmds.commands[CHOOSE i \in 1..Len(cmds.commands) :
                     cmds.commands[i].variant_name = v.variant_name]

\* `false #( || self.#flags )*`: a help flag of the record is set.
OwnHelpFlag(reg, value) ==
    \E i \in 1..Len(reg.options) :
        IsHelpFlag(reg.options[i]) /\ value[reg.options[i].field]

\* help_requested with a bug: the command field is not looked at.
HelpRequestedOwnFlags(ty, value) == OwnHelpFlag(Registry(ty), value)

RECURSIVE HelpRequested(_, _)
\* Options::help_requested of a record of type ty: a help flag of it is set,
\* or help_requested of its command, which for a command enum is that of
\* the record the variant holds.
HelpRequested(ty, value) ==
    \/ OwnHelpFlag(Registry(ty), value)
    \/ /\ Registry(ty).command # ""
       /\ value[Registry(ty).command].some
       /\ HelpRequested(
             CommandType(VariantOf(Registry(Registry(ty).command_ty),
                                   value[Registry(ty).command].val)),
             value[Registry(ty).command].val.opts)

(***************************************************************************)
(* The state.                                                              *)
(*   parser      the Parser                                                *)
(*   op, ret     the last call or step made, and what next_opt or next_arg *)
(*               returned in it                                            *)
(*   pre         the Parser as it was before the last call or step         *)
(* kept of the calls made on a bare Parser:                                *)
(*   cluster     the raw argument the open short cluster came from         *)
(*   emitted     the Short characters next_opt returned from that argument *)
(*   seenFree    some next_opt call has returned a Free token              *)
(*   hadFree     seenFree, as it was before the last call                  *)
(*   sawDashes   some next_opt call met "--" while not terminated          *)
(* and of a run of parse:                                                  *)
(*   stack       the frames of the parse calls in progress, outermost      *)
(*               first                                                     *)
(*   preStack    stack as it was before the last step                      *)
(*   outcome     what the outermost parse returned                         *)
(*   input       the arguments parse_args was given, where kept (SpecValues)*)
(***************************************************************************)
VARIABLES parser, op, ret, pre, cluster, emitted, seenFree, hadFree, sawDashes,
          stack, preStack, outcome, decl, built, process, input

tokenVars == <<cluster, emitted, seenFree, hadFree, sawDashes>>
parseVars == <<stack, preStack, outcome>>
deriveVars == <<decl, built>>
exitVars == <<process>>
inputVars == <<input>>
vars == <<parser, op, ret, pre, cluster, emitted, seenFree, hadFree, sawDashes,
          stack, preStack, outcome, decl, built, process, input>>

(***************************************************************************)
(* Spec: a bare Parser under any interleaving of next_opt and next_arg.    *)
(***************************************************************************)
Init ==
    /\ \E args \in ListsUpTo(ArgPool, MaxArgs), style \in ParsingStyle :
          parser = ParserNew(args, style)
    /\ op = "new"
    /\ ret = None
    /\ pre = parser
    /\ cluster = <<>>
    /\ emitted = <<>>
    /\ seenFree = FALSE
    /\ hadFree = FALSE
    /\ sawDashes = FALSE
    /\ stack = <<>>
    /\ preStack = <<>>
    /\ outcome = Running
    /\ decl = <<>>
    /\ built = DeriveStart
    /\ process = NotExited
    /\ input = <<>>

\* A non-empty cluster remainder is pending in p.
Pending(p) == p.cur.some /\ p.cur.rest # <<>>

\* next_opt on p reads a raw "--" as the terminator.
MeetsDashes(p) ==
    /\ ~Pending(p)
    /\ ~p.terminated
    /\ p.args # <<>>
    /\ Head(p.args) = <<"-", "-">>

\* A call of next_opt.
DoNextOpt ==
    LET r == NextOpt(parser)
        opened == r.p.args # parser.args
    IN  /\ parser' = r.p
        /\ op' = "next_opt"
        /\ ret' = r.ret
        /\ pre' = parser
        /\ cluster' = IF r.ret.kind # "Short" THEN <<>>
                      ELSE IF opened THEN Head(parser.args) ELSE cluster
        /\ emitted' = IF r.ret.kind # "Short" THEN <<>>
                      ELSE IF opened THEN r.ret.name ELSE emitted \o r.ret.name
        /\ seenFree' = (seenFree \/ r.ret.kind = "Free")
        /\ hadFree' = seenFree
        /\ sawDashes' = (sawDashes \/ MeetsDashes(parser))
        /\ UNCHANGED parseVars
        /\ UNCHANGED deriveVars
        /\ UNCHANGED exitVars
        /\ UNCHANGED inputVars

\* A call of next_arg.
DoNextArg ==
    LET r == NextArg(parser)
    IN  /\ parser' = r.p
        /\ op' = "next_arg"
        /\ ret' = r.ret
        /\ pre' = parser
        /\ hadFree' = seenFree
        /\ UNCHANGED <<cluster, emitted, seenFree, sawDashes>>
        /\ UNCHANGED parseVars
        /\ UNCHANGED deriveVars
        /\ UNCHANGED exitVars
        /\ UNCHANGED inputVars

Next == DoNextOpt \/ DoNextArg

Spec == Init /\ [][Next]_vars

\* The caller goes on calling next_opt or next_arg.
SpecFair == Spec /\ WF_vars(Next)

(***************************************************************************)
(* SpecParse: Options::parse_args on one of the records, a step for every  *)
(* turn of the `while let Some(_opt) = _parser.next_opt()` loop.           *)
(***************************************************************************)
\* The longest argument list given to parse_args, and the longest given to
\* the record with four free fields.
MaxParseArgs == 3
MaxFreeArgs == 5

\* The longest argument list given to the record.
ArgsBound(ty) == IF ty = "ManyOpts" THEN MaxFreeArgs ELSE MaxParseArgs

\* Options::parse_args: Parser::new is done, parse of the record is not
\* entered yet.  preStack names the record.
InitParse ==
    /\ \E ty \in TopTypes :
         /\ \E args \in ListsUpTo(TypePool(ty), ArgsBound(ty)), style \in ParsingStyle :
               parser = ParserNew(args, style)
         /\ preStack = <<NewFrame(ty, "")>>
    /\ stack = <<>>
    /\ outcome = NotEntered
    /\ op = "new"
    /\ decl = <<>>
    /\ built = DeriveStart
    /\ process = NotExited
    /\ input = <<>>
    /\ ret = None
    /\ pre = parser
    /\ cluster = <<>>
    /\ emitted = <<>>
    /\ seenFree = FALSE
    /\ hadFree = FALSE
    /\ sawDashes = FALSE

\* The innermost parse call in progress.
Top == stack[Len(stack)]

\* The stack with its innermost frame replaced.
WithTop(frame) == [stack EXCEPT ![Len(stack)] = frame]

\* A turn of the loop for a token that is an option or fills a free field.
\* parse is entered: the defaults of the fields are computed, and parse
\* returns if one does not convert.
ParseBegin ==
    /\ op = "new"
    /\ IF DefaultError(Registry(preStack[1].ty)) = NoError
       THEN stack' = preStack /\ outcome' = Running
       ELSE stack' = <<>> /\ outcome' = Err(DefaultError(Registry(preStack[1].ty)))
    /\ op' = "parse_args"
    /\ UNCHANGED <<parser, ret, pre, preStack>>
    /\ UNCHANGED tokenVars
    /\ UNCHANGED deriveVars
    /\ UNCHANGED exitVars
    /\ UNCHANGED inputVars

ParseToken ==
    LET r == NextOpt(parser)
        reg == Registry(Top.ty)
        h == HandleToken(reg, Top, r.p, r.ret)
    IN  /\ outcome = Running
        /\ ~Top.broke
        /\ r.ret # None
        /\ ~SelectsCommand(reg, r.ret)
        /\ parser' = h.p
        /\ op' = "token"
        /\ ret' = r.ret
        /\ pre' = parser
        /\ preStack' = stack
        /\ IF h.err = NoError
           THEN /\ stack' = WithTop([h.frame EXCEPT !.frees =
                                        IF r.ret.kind = "Free" THEN Append(@, r.ret.value)
                                        ELSE @])
                /\ outcome' = Running
           ELSE stack' = <<>> /\ outcome' = Err(h.err)
        /\ UNCHANGED tokenVars
        /\ UNCHANGED deriveVars
        /\ UNCHANGED exitVars
        /\ UNCHANGED inputVars

\* A turn of the loop for a Free token in a record with a command field:
\* parse_command of the command type, which enters the variant's parse.
ParseCommand ==
    LET r == NextOpt(parser)
        reg == Registry(Top.ty)
        cmds == Registry(reg.command_ty)
        i == MatchedCommand(cmds, r.ret.value)
        marked == IF reg.command_required
                  THEN [Top EXCEPT !.used = @ \cup {reg.command}] ELSE Top
    IN  /\ outcome = Running
        /\ ~Top.broke
        /\ SelectsCommand(reg, r.ret)
        /\ parser' = Delegated(r.p)
        /\ op' = "command"
        /\ ret' = r.ret
        /\ pre' = parser
        /\ preStack' = stack
        /\ IF i # 0 /\ DefaultError(Registry(CommandType(cmds.commands[i]))) # NoError
           THEN /\ stack' = <<>>
                /\ outcome' = Err(DefaultError(Registry(CommandType(cmds.commands[i]))))
           ELSE IF i # 0
           THEN /\ stack' = Append(WithTop([marked EXCEPT !.supplied = @ \cup {reg.command}]),
                                   NewFrame(CommandType(cmds.commands[i]),
                                            cmds.commands[i].variant_name))
                /\ outcome' = Running
           ELSE stack' = <<>> /\ outcome' = Err(UnrecognizedCommand(r.ret.value))
        /\ UNCHANGED tokenVars
        /\ UNCHANGED deriveVars
        /\ UNCHANGED exitVars
        /\ UNCHANGED inputVars

\* The loop of the innermost parse ends, at end-of-stream or after `break`;
\* the required fields are checked and the call returns, to the command
\* branch of the caller, which stores the value and breaks, or to parse_args.
ParseEnd ==
    LET r == NextOpt(parser)
        reg == Registry(Top.ty)
        e == RequiredCheck(reg, Top)
        caller == stack[Len(stack) - 1]
    IN  /\ outcome = Running
        /\ Top.broke \/ r.ret = None
        /\ parser' = (IF Top.broke THEN parser ELSE r.p)
        /\ op' = "end"
        /\ ret' = None
        /\ pre' = parser
        /\ preStack' = stack
        /\ IF e # NoError THEN stack' = <<>> /\ outcome' = Err(e)
           ELSE IF Len(stack) = 1 THEN stack' = <<>> /\ outcome' = Ok(Top.result)
           ELSE /\ stack' = Append(SubSeq(stack, 1, Len(stack) - 2),
                                   [caller EXCEPT
                                       !.result[Registry(caller.ty).command] = CommandValue(Top),
                                       !.broke = TRUE])
                /\ outcome' = Running
        /\ UNCHANGED tokenVars
        /\ UNCHANGED deriveVars
        /\ UNCHANGED exitVars
        /\ UNCHANGED inputVars

NextParse == ParseBegin \/ ParseToken \/ ParseCommand \/ ParseEnd

SpecParse == InitParse /\ [][NextParse]_vars

(***************************************************************************)
(* SpecExit: Options::parse_args_or_exit, which is parse_args on the       *)
(* arguments after the program's name and a last step on what it returns.  *)
(***************************************************************************)
\* The record parse_args was called on.
TopTy == preStack[1].ty

\* The command loop with a bug: the name of the first command alone.
CommandStrFirst(ty, value) ==
    IF Registry(ty).command = "" \/ ~value[Registry(ty).command].some THEN <<>>
    ELSE <<" ">> \o VariantOf(Registry(Registry(ty).command_ty),
                              value[Registry(ty).command].val).name

RECURSIVE CommandStr(_, _)
\* `loop { if let Some(new_command) = command.command() .. }`: command() of
\* a record is its command, command_name() of a command is the name of its
\* variant, and command() of a command is that of the record it holds.
CommandStr(ty, value) ==
    IF Registry(ty).command = "" \/ ~value[Registry(ty).command].some THEN <<>>
    ELSE <<" ">>
         \o VariantOf(Registry(Registry(ty).command_ty),
                      value[Registry(ty).command].val).name
         \o CommandStr(CommandType(VariantOf(Registry(Registry(ty).command_ty),
                                             value[Registry(ty).command].val)),
                       value[Registry(ty).command].val.opts)

\* self_usage with a bug: usage() of the record of the command, not its
\* self_usage.
SelfUsageOfCommand(ty, value) ==
    IF Registry(ty).command = "" \/ ~value[Registry(ty).command].some THEN ty
    ELSE CommandType(VariantOf(Registry(Registry(ty).command_ty),
                               value[Registry(ty).command].val))

RECURSIVE SelfUsage(_, _)
\* self_usage: usage() of the record, or self_usage of its command.
SelfUsage(ty, value) ==
    IF Registry(ty).command = "" \/ ~value[Registry(ty).command].some THEN ty
    ELSE SelfUsage(CommandType(VariantOf(Registry(Registry(ty).command_ty),
                                         value[Registry(ty).command].val)),
                   value[Registry(ty).command].val.opts)

RECURSIVE SelfCommandList(_, _)
\* self_command_list: command_list() of the record, or self_command_list of
\* its command.
SelfCommandList(ty, value) ==
    IF Registry(ty).command = "" THEN ""
    ELSE IF ~value[Registry(ty).command].some THEN Registry(ty).command_ty
    ELSE SelfCommandList(CommandType(VariantOf(Registry(Registry(ty).command_ty),
                                               value[Registry(ty).command].val)),
                         value[Registry(ty).command].val.opts)

\* What parse_args_or_exit does with the record parse_args returned.
HelpOrReturn(ty, value) ==
    IF HelpRequested(ty, value)
    THEN Exited(0, NoError, CommandStr(ty, value), SelfUsage(ty, value),
                SelfCommandList(ty, value))
    ELSE Returned(value)

\* The records parse_args_or_exit is called on.
ExitTypes == {"ReqOpts", "Opts", "HelpOpts", "HelpOpts3", "NestOpts", "ReqCmdOpts",
              "NoHelpOpts", "ManyHelpOpts", "BadDefault"}

\* parse_args_or_exit: std::env::args is collected, Parser::new is done on
\* the arguments after the first.
InitExit ==
    /\ InitParse
    /\ preStack[1].ty \in ExitTypes

\* parse_args has returned: unwrap_or_else exits on an error, the usage is
\* printed if help is requested, or the record is returned.
OrExit ==
    /\ outcome.tag \in {"Ok", "Err"}
    /\ process = NotExited
    /\ process' = IF outcome.tag = "Err"
                  THEN Exited(2, outcome.err, <<>>, "", "")
                  ELSE HelpOrReturn(TopTy, outcome.value)
    /\ UNCHANGED <<parser, op, ret, pre>>
    /\ UNCHANGED tokenVars
    /\ UNCHANGED parseVars
    /\ UNCHANGED deriveVars
    /\ UNCHANGED inputVars

NextExit == NextParse \/ OrExit

SpecExit == InitExit /\ [][NextExit]_vars

(***************************************************************************)
(* SpecValues: Options::parse_args on records with counters, multi-value   *)
(* options, value options, commands and required fields, the argument list *)
(* kept in input.                                                          *)
(***************************************************************************)
\* The longest argument list given to parse_args, the longest given to the
\* record whose option takes two values, and the longest given to the record
\* with four required fields.
MaxValueArgs == 3
MaxTupleArgs == 6
MaxOrderArgs == 4

\* The records parse_args is called on.
ValueTypes == {"CountOpts", "DefaultOpts", "PushOpts", "MultiOpts", "FrontOpts", "OneOpts",
               "Opts", "WaiveOpts", "OrderOpts"}

\* The longest argument list given to the record.
ValueBound(ty) ==
    CASE ty = "MultiOpts" -> MaxTupleArgs
      [] ty = "OrderOpts" -> MaxOrderArgs
      [] OTHER -> MaxValueArgs

\* The raw arguments the argument lists given to a record are made of.
ValuePool(ty) ==
    CASE ty = "CountOpts" ->
           { <<"-", "n">>, <<"-", "n", "n", "n">>, <<"-", "-", "n", "u", "m", "b", "e", "r">>,
             <<"-", "-", "n", "u", "m", "b", "e", "r", "=", "1">>, <<"-", "-">> }
      [] ty = "DefaultOpts" ->
           { <<"-", "c">>, <<"-", "c", "c">>, <<"-", "-", "c", "o", "u", "n", "t">>,
             <<"-", "f">>, <<"-", "c", "f", "1">>, <<"1">> }
      [] ty = "PushOpts" ->
           { <<"-", "t">>, <<"a">>, <<"-", "t", "b">>,
             <<"-", "-", "t", "h", "i", "n", "g", "=", "c">>,
             <<"-", "-", "t", "h", "i", "n", "g">>, <<"d">> }
      [] ty = "MultiOpts" ->
           { <<"-", "f">>, <<"1">>, <<"2">> }
      [] ty = "FrontOpts" ->
           { <<"-", "b">>, <<"a">>, <<"-", "b", "c">>, <<"1">>, <<"2">> }
      [] ty = "OneOpts" ->
           { <<"-", "o">>, <<"-", "-">>, <<"-", "-", "o", "p">>, <<"-", "x">>,
             <<"-", "-", "f", "o", "=", "1">>, <<"x">> }
      [] ty = "Opts" ->
           { <<"-", "-">>, <<"f", "o", "o">>, <<"b", "a", "r">>,
             <<"-", "-", "f", "o", "o", "=", "x">>, <<"-", "f">>, <<"x">> }
      [] ty = "WaiveOpts" ->
           { <<"-", "h">>, <<"-", "l", "1">>, <<"r", "u", "n">>, <<"-", "n", "x">> }
      [] ty = "OrderOpts" ->
           { <<"-", "a", "1">>, <<"-", "b", "1">>, <<"x">> }

\* Options::parse_args: Parser::new is done on the arguments, parse of the
\* record is not entered yet.
InitValues ==
    /\ \E ty \in ValueTypes :
         /\ \E args \in ListsUpTo(ValuePool(ty), ValueBound(ty)), style \in ParsingStyle :
               /\ parser = ParserNew(args, style)
               /\ input = args
         /\ preStack = <<NewFrame(ty, "")>>
    /\ stack = <<>>
    /\ outcome = NotEntered
    /\ op = "new"
    /\ decl = <<>>
    /\ built = DeriveStart
    /\ process = NotExited
    /\ ret = None
    /\ pre = parser
    /\ cluster = <<>>
    /\ emitted = <<>>
    /\ seenFree = FALSE
    /\ hadFree = FALSE
    /\ sawDashes = FALSE

SpecValues == InitValues /\ [][NextParse]_vars

(***************************************************************************)
(* SpecDerive: derive_options_struct run on a list of fields, a turn of    *)
(* one of its three loops at a time.                                       *)
(***************************************************************************)
MaxFields == 3

\* The fields a record is composed of: those of test_opt_short_override,
\* and fields whose names or attributes meet them.
FieldPool ==
    { [FieldAttrs("option_0", <<"o", "p", "t", "i", "o", "n", "_", "0">>, "option", "Switch", "bool")
          EXCEPT !.no_long = TRUE],
      [FieldAttrs("option_1", <<"o", "p", "t", "i", "o", "n", "_", "1">>, "option", "Switch", "bool")
          EXCEPT !.short = "o", !.no_long = TRUE],
      FieldAttrs("other", <<"o", "t", "h", "e", "r">>, "option", "Switch", "bool"),
      FieldAttrs("Odd", <<"O", "d", "d">>, "option", "Switch", "bool"),
      [FieldAttrs("oboe", <<"o", "b", "o", "e">>, "option", "Switch", "bool")
          EXCEPT !.short = "O"],
      [FieldAttrs("over", <<"o", "v", "e", "r">>, "option", "Switch", "bool")
          EXCEPT !.short = "o"],
      [FieldAttrs("only", <<"o", "n", "l", "y">>, "option", "Switch", "bool")
          EXCEPT !.no_short = TRUE],
      [FieldAttrs("bare", <<"b", "a", "r", "e">>, "option", "Switch", "bool")
          EXCEPT !.no_short = TRUE, !.no_long = TRUE],
      [FieldAttrs("alias", <<"a", "l", "i", "a", "s">>, "option", "SetOption", "String")
          EXCEPT !.long = <<"o", "t", "h", "e", "r">>],
      [FieldAttrs("minus", <<"m", "i", "n", "u", "s">>, "option", "Switch", "bool")
          EXCEPT !.long = <<"-", "x">>],
      [FieldAttrs("dash", <<"d", "a", "s", "h">>, "option", "Switch", "bool")
          EXCEPT !.short = "-"],
      [FieldAttrs("both", <<"b", "o", "t", "h">>, "option", "Switch", "bool")
          EXCEPT !.short = "b", !.no_short = TRUE],
      FieldAttrs("sharp_s_a", <<"sharp_s", "a">>, "option", "Switch", "bool"),
      [FieldAttrs("sharp_s_b", <<"sharp_s", "b">>, "option", "Switch", "bool")
          EXCEPT !.no_long = TRUE],
      FieldAttrs("rest", <<"r", "e", "s", "t">>, "free", "Push", "String"),
      [FieldAttrs("command", <<"c", "o", "m", "m", "a", "n", "d">>, "command", "SetOption", "Command")
          EXCEPT !.required = TRUE] }

\* The fields of the records of test_no_help_flag, test_many_help_flags and
\* test_type_attrs, and fields that meet them.
HelpPool ==
    { FieldAttrs("help", <<"h", "e", "l", "p">>, "option", "Switch", "bool"),
      [FieldAttrs("help", <<"h", "e", "l", "p">>, "option", "Switch", "bool")
          EXCEPT !.help_flag = TRUE],
      [FieldAttrs("help", <<"h", "e", "l", "p">>, "option", "Switch", "bool")
          EXCEPT !.no_help_flag = TRUE],
      [FieldAttrs("help", <<"h", "e", "l", "p">>, "option", "Switch", "bool")
          EXCEPT !.long = <<"h", "e", "l", "p">>],
      [FieldAttrs("help", <<"h", "e", "l", "p">>, "option", "Switch", "bool")
          EXCEPT !.no_long = TRUE, !.short = "h"],
      [FieldAttrs("help", <<"h", "e", "l", "p">>, "option", "Switch", "bool")
          EXCEPT !.help_flag = TRUE, !.no_help_flag = TRUE],
      [FieldAttrs("halp", <<"h", "a", "l", "p">>, "option", "Switch", "bool")
          EXCEPT !.help_flag = TRUE],
      [FieldAttrs("aid", <<"a", "i", "d">>, "option", "Switch", "bool")
          EXCEPT !.long = <<"h", "e", "l", "p">>],
      [FieldAttrs("foo", <<"f", "o", "o">>, "option", "SetField", "i32")
          EXCEPT !.not_required = TRUE],
      FieldAttrs("rest", <<"r", "e", "s", "t">>, "free", "Push", "String") }

\* Free fields and command fields that meet in a record, an option among
\* them: a free field of one value, two that accumulate, two command fields
\* and a field given both `free` and `command`.
SlotPool ==
    { FieldAttrs("first", <<"f", "i", "r", "s", "t">>, "free", "SetField", "String"),
      FieldAttrs("rest", <<"r", "e", "s", "t">>, "free", "Push", "String"),
      [FieldAttrs("more", <<"m", "o", "r", "e">>, "free", "Push", "i32")
          EXCEPT !.meth = "push_front"],
      FieldAttrs("cmd", <<"c", "m", "d">>, "command", "SetOption", "Command"),
      FieldAttrs("sub", <<"s", "u", "b">>, "command", "SetOption", "HelpCmd"),
      FieldAttrs("mixed", <<"m", "i", "x", "e", "d">>, "command free", "SetOption", "Command"),
      FieldAttrs("verbose", <<"v", "e", "r", "b", "o", "s", "e">>, "option", "Switch", "bool") }

\* The attributes given on the type of such a record.
TypeDefaults ==
    { NoDefaults,
      DefaultOptsOf(TRUE, FALSE, FALSE, FALSE),
      DefaultOptsOf(TRUE, TRUE, TRUE, FALSE),
      DefaultOptsOf(FALSE, TRUE, FALSE, TRUE) }

\* The fields of l are of different names.
DistinctFields(l) == \A i, j \in 1..Len(l) : l[i].field = l[j].field => i = j

\* The derive macro is given a record of at most MaxFields fields.
InitDerive ==
    /\ \E defaults \in TypeDefaults :
          /\ built = [DeriveStart EXCEPT !.defaults = defaults]
          /\ decl \in {l \in ListsUpTo(HelpPool, MaxFields) : DistinctFields(l)}
                     \cup (IF defaults # NoDefaults THEN {}
                           ELSE {l \in ListsUpTo(FieldPool, MaxFields) : DistinctFields(l)}
                                \cup {l \in ListsUpTo(SlotPool, MaxFields) : DistinctFields(l)})
    /\ parser = ParserNew(<<>>, AllOptions)
    /\ op = "derive"
    /\ ret = None
    /\ pre = parser
    /\ cluster = <<>>
    /\ emitted = <<>>
    /\ seenFree = FALSE
    /\ hadFree = FALSE
    /\ sawDashes = FALSE
    /\ stack = <<>>
    /\ preStack = <<>>
    /\ outcome = NotEntered
    /\ process = NotExited
    /\ input = <<>>

\* What a turn of a loop of derive_options_struct leaves alone.
DeriveLeaves ==
    /\ UNCHANGED <<parser, ret, pre, decl>>
    /\ UNCHANGED tokenVars
    /\ UNCHANGED parseVars
    /\ UNCHANGED exitVars
    /\ UNCHANGED inputVars

\* A turn of `for field in fields`, or its end.
DeriveField ==
    /\ built.phase = "fields"
    /\ built' = DeriveStep(decl, built)
    /\ op' = "field"
    /\ DeriveLeaves

\* A turn of `for opt in &mut options`, or its end.
DeriveShort ==
    /\ built.phase = "shorts"
    /\ built' = DeriveStep(decl, built)
    /\ op' = "short"
    /\ DeriveLeaves

\* A turn of `for opt in &options`, or its end.
DerivePattern ==
    /\ built.phase = "patterns"
    /\ built' = DeriveStep(decl, built)
    /\ op' = "pattern"
    /\ DeriveLeaves

NextDerive == DeriveField \/ DeriveShort \/ DerivePattern

SpecDerive == InitDerive /\ [][NextDerive]_vars

(***************************************************************************)
(* SpecUsage: make_usage on the free fields and options of a record, and   *)
(* make_cmd_usage on the commands of an enum, a turn of a loop at a time.  *)
(* The text made is a sequence of characters, "\n" the newline.            *)
(***************************************************************************)
\* const MIN_WIDTH, MAX_WIDTH of max_width
MIN_WIDTH == 8
MAX_WIDTH == 30

\* The longest lists of options, of free fields and of commands usage is
\* made of.
MaxUsageOpts == 3
MaxUsageFree == 1
MaxUsageCmds == 3

\* struct Opt, FreeOpt and Cmd as the usage reads them; NoName and NoShort
\* stand for None.
UsageOpt(short, long, meta, text, default) ==
    [short |-> short, long |-> long, meta |-> meta, help |-> text, default |-> default]
UsageFree(field, text) == [field |-> field, help |-> text]
UsageCmd(name, text) == [name |-> name, help |-> text]

\* repeat(' ').take(n)
Spaces(n) == [i \in 1..n |-> " "]

\* The greatest of a set of numbers, 0 of none: Iterator::max and
\* unwrap_or(0).
MaxOr0(ws) == IF ws = {} THEN 0 ELSE CHOOSE w \in ws : \A v \in ws : v <= w

\* The greater and the smaller of two numbers.
Larger(a, b) == IF a >= b THEN a ELSE b
Smaller(a, b) == IF a <= b THEN a ELSE b

\* Opt::width
OptWidth(o) ==
    LET short == IF o.short = NoShort THEN 0 ELSE 1 + 1
        long == IF o.long = NoName THEN 0 ELSE Len(o.long) + 2
        sep == IF short = 0 \/ long = 0 THEN 0 ELSE 2
        meta == IF o.meta = NoName THEN 0 ELSE Len(o.meta) + 1
    IN  2 + short + long + sep + meta + 2

\* FreeOpt::width
FreeWidth(f) == 2 + Len(f.field) + 2

\* `cmd.name.len() + 4` of make_cmd_usage
CmdWidth(c) == Len(c.name) + 4

\* max_width with a bug: the entries wider than MAX_WIDTH are counted.
MaxWidthOfAll(ws) == Smaller(Larger(MaxOr0(ws), MIN_WIDTH), MAX_WIDTH)

\* max_width of items of the widths ws.
MaxWidth(ws) ==
    Smaller(Larger(MaxOr0({w \in ws : ~(w > MAX_WIDTH)}), MIN_WIDTH), MAX_WIDTH)

\* `if line.len() < width { .. } else { .. }`: the line padded to the
\* column, or broken and indented to it.
ToColumn(line, width) ==
    IF Len(line) < width THEN line \o Spaces(width - Len(line))
    ELSE line \o <<"\n">> \o Spaces(width)

\* Opt::usage
OptUsage(o, col_width) ==
    LET names == <<" ", " ">>
                 \o (IF o.short # NoShort THEN <<"-", o.short>> ELSE <<>>)
                 \o (IF o.short # NoShort /\ o.long # NoName THEN <<",", " ">> ELSE <<>>)
                 \o (IF o.long # NoName THEN <<"-", "-">> \o o.long ELSE <<>>)
                 \o (IF o.meta # NoName THEN <<" ">> \o o.meta ELSE <<>>)
    IN  (IF o.help # NoName \/ o.default # NoName THEN ToColumn(names, col_width)
         ELSE names)
        \o o.help
        \o (IF o.default # NoName
            THEN <<" ", "(", "d", "e", "f", "a", "u", "l", "t", ":", " ">>
                 \o o.default \o <<")">>
            ELSE <<>>)

\* The line make_usage makes of a free field.
FreeUsage(f, width) ==
    IF f.help # NoName THEN ToColumn(<<" ", " ">> \o f.field, width) \o f.help
    ELSE <<" ", " ">> \o f.field

\* The line make_cmd_usage makes of a command.
CmdUsage(c, width) ==
    IF c.help # NoName THEN ToColumn(<<" ", " ">> \o c.name, width) \o c.help
    ELSE <<" ", " ">> \o c.name

PositionalHeader ==
    <<"P", "o", "s", "i", "t", "i", "o", "n", "a", "l", " ", "a", "r", "g",
      "u", "m", "e", "n", "t", "s", ":", "\n">>

OptionalHeader ==
    <<"O", "p", "t", "i", "o", "n", "a", "l", " ", "a", "r", "g", "u", "m",
      "e", "n", "t", "s", ":", "\n">>

\* String::pop
Pop(res) == IF res = <<>> THEN res ELSE SubSeq(res, 1, Len(res) - 1)

\* The heading pushed before the first entry of a section, after an empty
\* line if there is text already.
Headed(res, first, header) ==
    IF ~first THEN res
    ELSE (IF res # <<>> THEN res \o <<"\n">> ELSE res) \o header

\* The widths of the entries of a sequence.
Widths(items, W(_)) == {W(items[i]) : i \in 1..Len(items)}

\* make_usage before its loops, make_cmd_usage before its loop: the help of
\* the type is pushed and the column is computed.  lines keeps the text
\* made of each entry.
UsageStart(d) ==
    IF d.kind = "commands"
    THEN [phase |-> "cmds", next |-> 1, res |-> <<>>, lines |-> <<>>,
          width |-> MaxWidth(Widths(d.cmds, CmdWidth))]
    ELSE [phase |-> "free", next |-> 1, lines |-> <<>>,
          res |-> IF d.help # NoName THEN d.help \o <<"\n">> ELSE <<>>,
          width |-> Larger(MaxWidth(Widths(d.free, FreeWidth)),
                           MaxWidth(Widths(d.opts, OptWidth)))]

\* The text of an entry is pushed with a newline.
PushLine(b, res, line) ==
    [b EXCEPT !.res = res \o line \o <<"\n">>, !.lines = Append(@, line),
              !.next = @ + 1]

\* A turn of a loop of make_usage or make_cmd_usage, or the passage to what
\* follows it; the last newline is popped at the end.
UsageStep(d, b) ==
    CASE b.phase = "free" ->
           IF b.next > Len(d.free) THEN [b EXCEPT !.phase = "opts", !.next = 1]
           ELSE PushLine(b, Headed(b.res, b.next = 1, PositionalHeader),
                         FreeUsage(d.free[b.next], b.width))
      [] b.phase = "opts" ->
           IF b.next > Len(d.opts) THEN [b EXCEPT !.phase = "done", !.res = Pop(@)]
           ELSE PushLine(b, Headed(b.res, b.next = 1, OptionalHeader),
                         OptUsage(d.opts[b.next], b.width))
      [] b.phase = "cmds" ->
           IF b.next > Len(d.cmds) THEN [b EXCEPT !.phase = "done", !.res = Pop(@)]
           ELSE PushLine(b, b.res, CmdUsage(d.cmds[b.next], b.width))
      [] OTHER -> b

\* A name of n letters.
LongName(n) == [i \in 1..n |-> "x"]

\* The help of an entry, and the help of a type.
HelpText == <<"H", "e", "l", "p">>
TypeHelp == <<"D", "o", "c">>

\* Options of test_usage, and options as wide as the column may be, one
\* wider, and far wider.
UsageOptPool ==
    { UsageOpt("c", NoName, NoName, HelpText, NoName),
      UsageOpt("a", <<"a", "l", "p", "h", "a">>, NoName, HelpText, NoName),
      UsageOpt("f", <<"f", "o", "x", "t", "r", "o", "t">>, <<"Z">>, NoName, <<"9", "9">>),
      UsageOpt(NoShort, LongName(24), NoName, HelpText, NoName),
      UsageOpt(NoShort, LongName(25), NoName, HelpText, NoName),
      UsageOpt(NoShort, LongName(31), NoName, HelpText, NoName) }

\* Free fields of test_usage, and one wider than the column may be.
UsageFreePool ==
    { UsageFree(<<"a">>, HelpText), UsageFree(<<"b">>, NoName),
      UsageFree(LongName(27), HelpText) }

\* Commands: of a short name, as wide as the column may be, and one wider.
UsageCmdPool ==
    { UsageCmd(<<"f", "o", "o">>, HelpText), UsageCmd(<<"b", "a", "r">>, NoName),
      UsageCmd(LongName(26), HelpText), UsageCmd(LongName(27), HelpText) }

\* What usage is made of: the help, the free fields and the options of a
\* record, or the commands of an enum.
UsageInputs ==
    [kind : {"record"}, help : {NoName, TypeHelp},
     free : ListsUpTo(UsageFreePool, MaxUsageFree),
     opts : ListsUpTo(UsageOptPool, MaxUsageOpts), cmds : {<<>>}]
    \cup [kind : {"commands"}, help : {NoName}, free : {<<>>}, opts : {<<>>},
          cmds : ListsUpTo(UsageCmdPool, MaxUsageCmds)]

InitUsage ==
    /\ decl \in UsageInputs
    /\ built = UsageStart(decl)
    /\ parser = ParserNew(<<>>, AllOptions)
    /\ op = "usage"
    /\ ret = None
    /\ pre = parser
    /\ cluster = <<>>
    /\ emitted = <<>>
    /\ seenFree = FALSE
    /\ hadFree = FALSE
    /\ sawDashes = FALSE
    /\ stack = <<>>
    /\ preStack = <<>>
    /\ outcome = NotEntered
    /\ process = NotExited
    /\ input = <<>>

\* A turn of `for opt in free`, or its end.
MakeUsageFree ==
    /\ built.phase = "free"
    /\ built' = UsageStep(decl, built)
    /\ op' = "free"
    /\ DeriveLeaves

\* A turn of `for opt in opts`, or its end and `res.pop()`.
MakeUsageOpts ==
    /\ built.phase = "opts"
    /\ built' = UsageStep(decl, built)
    /\ op' = "opts"
    /\ DeriveLeaves

\* A turn of `for cmd in cmds`, or its end and `res.pop()`.
MakeCmdUsage ==
    /\ built.phase = "cmds"
    /\ built' = UsageStep(decl, built)
    /\ op' = "cmds"
    /\ DeriveLeaves

NextUsage == MakeUsageFree \/ MakeUsageOpts \/ MakeCmdUsage

SpecUsage == InitUsage /\ [][NextUsage]_vars

(***************************************************************************)
(* What the tokenizer is expected to do, stated on the raw arguments.      *)
(***************************************************************************)
\* The raw argument is a short-option cluster: "-c1..cn", n >= 1, not "--..".
IsCluster(arg) ==
    /\ Len(arg) >= 2
    /\ arg[1] = "-"
    /\ arg[2] # "-"

\* The token an argument other than "--" stands for while options are recognised.
Classify(arg) ==
    IF Len(arg) >= 3 /\ arg[1] = "-" /\ arg[2] = "-"
    THEN IF \E i \in 3..Len(arg) : arg[i] = "="
         THEN LET eq == CHOOSE i \in 3..Len(arg) :
                            arg[i] = "=" /\ \A j \in 3..(i - 1) : arg[j] # "="
              IN  LongWithArg(SubSeq(arg, 3, eq - 1), SubSeq(arg, eq + 1, Len(arg)))
         ELSE Long(SubSeq(arg, 3, Len(arg)))
    ELSE IF Len(arg) >= 2 /\ arg[1] = "-"
         THEN Short(arg[2])
         ELSE Free(arg)

\* The next raw argument of p as a Free token, or end-of-stream.
NextRawAsFree(p) == IF p.args = <<>> THEN None ELSE Free(Head(p.args))

\* C1: once terminated is true it stays true, every next_opt result from then
\* on is Free(the next raw argument) or end-of-stream, and no cluster cursor
\* with characters left exists while terminated is true.
C1_TerminatedMeansFree ==
    /\ pre.terminated => parser.terminated
    /\ (op = "next_opt" /\ pre.terminated) =>
          /\ ret = NextRawAsFree(pre)
          /\ parser.args = (IF pre.args = <<>> THEN <<>> ELSE Tail(pre.args))
    /\ parser.terminated => ~Pending(parser)

\* C1 happens: a terminated parser returned a dashed argument as Free.
C1_Witness ==
    /\ op = "next_opt"
    /\ pre.terminated
    /\ ret.kind = "Free"
    /\ StartsWith(ret.value, <<"-">>)

\* C2: a next_opt call that meets "--" while not terminated does not return
\* the "--" but the raw argument after it as Free (end-of-stream if there is
\* none), and every later next_opt call returns the next raw argument as Free,
\* unchanged.
C2_DoubleDashSwallowed ==
    /\ (op = "next_opt" /\ MeetsDashes(pre)) =>
          /\ ret = (IF Len(pre.args) >= 2 THEN Free(pre.args[2]) ELSE None)
          /\ parser.args = SubSeq(pre.args, 3, Len(pre.args))
    /\ (op = "next_opt" /\ sawDashes /\ ~MeetsDashes(pre)) =>
          /\ ret = NextRawAsFree(pre)
          /\ parser.args = (IF pre.args = <<>> THEN <<>> ELSE Tail(pre.args))

\* C2 happens: after a "--", the argument after the one that followed it was
\* returned as Free though it reads as a long option with a value.
C2_Witness ==
    /\ op = "next_opt"
    /\ sawDashes
    /\ ~MeetsDashes(pre)
    /\ ret.kind = "Free"
    /\ StartsWith(ret.value, <<"-", "-", "a", "=">>)

\* C3: next_arg returns the whole pending cluster remainder, consuming no raw
\* argument; with none pending it consumes and returns exactly one raw
\* argument; it returns end-of-stream iff nothing is pending and no raw
\* argument is left.  Either way the cluster cursor is cleared, so "-f" "value"
\* and "-fvalue" hand the same value to f.
C3_NextArg ==
    op = "next_arg" =>
       /\ Pending(pre) => (ret = Arg(pre.cur.rest) /\ parser.args = pre.args)
       /\ (~Pending(pre) /\ pre.args # <<>>) =>
             (ret = Arg(Head(pre.args)) /\ parser.args = Tail(pre.args))
       /\ (ret = None) <=> (~Pending(pre) /\ pre.args = <<>>)
       /\ ~parser.cur.some
       /\ parser.terminated = pre.terminated
       /\ (Pending(pre) /\ Len(emitted) = 1) => cluster = <<"-">> \o emitted \o ret.value
       /\ (~Pending(pre) /\ pre.cur.some /\ pre.args # <<>>) =>
             (cluster = <<"-">> \o emitted /\ ret.value = Head(pre.args))

\* C3 happens: next_arg returned the remainder "-b" of the cluster "-a-b".
C3_Witness ==
    /\ op = "next_arg"
    /\ Pending(pre)
    /\ emitted = <<"a">>
    /\ ret = Arg(<<"-", "b">>)

\* C4: of a cluster "-c1..cn" met while not terminated, next_opt returns
\* Short(c1), .., Short(cn) in that order, one a call, and no raw argument is
\* consumed while characters are left; a next_arg call after Short(ci) returns
\* c(i+1)..cn, after which nothing of the cluster is pending.
C4_ClusterInOrder ==
    /\ (op = "next_opt" /\ ~Pending(pre) /\ ~pre.terminated /\ pre.args # <<>>
            /\ IsCluster(Head(pre.args))) =>
          /\ ret = Short(Head(pre.args)[2])
          /\ cluster = Head(pre.args)
          /\ parser.args = Tail(pre.args)
    /\ (op = "next_opt" /\ Pending(pre)) =>
          /\ ret.kind = "Short"
          /\ parser.args = pre.args
          /\ Len(emitted) >= 2
    /\ (op = "next_opt" /\ ret.kind = "Short") =>
          /\ parser.cur.some
          /\ cluster = <<"-">> \o emitted \o parser.cur.rest
    /\ (op = "next_arg" /\ Pending(pre)) =>
          /\ cluster = <<"-">> \o emitted \o ret.value
          /\ ~Pending(parser)

\* C4 happens: three next_opt calls returned the three characters of "-a-b".
C4_Witness ==
    /\ op = "next_opt"
    /\ cluster = <<"-", "a", "-", "b">>
    /\ emitted = <<"a", "-", "b">>
    /\ ret = Short("b")

\* C5: under StopAtFirstFree every next_opt result after the first Free token
\* is Free(the next raw argument) or end-of-stream, and arguments before it are
\* classified as usual; under AllOptions arguments are classified as usual
\* whether or not a Free token came before, and terminated is set by "--" only.
C5_Styles ==
    /\ (op = "next_opt" /\ parser.style = StopAtFirstFree /\ hadFree) =>
          ret = NextRawAsFree(pre)
    /\ (op = "next_opt" /\ ~Pending(pre) /\ pre.args # <<>> /\ ~sawDashes
            /\ (parser.style = StopAtFirstFree => ~hadFree)) =>
          ret = Classify(Head(pre.args))
    /\ parser.style = AllOptions => (parser.terminated <=> sawDashes)
    /\ (parser.style = StopAtFirstFree /\ seenFree) => parser.terminated

\* C5 happens: under StopAtFirstFree, "-a" after a Free token came back Free.
C5_Witness ==
    /\ op = "next_opt"
    /\ parser.style = StopAtFirstFree
    /\ hadFree
    /\ ~sawDashes
    /\ ret = Free(<<"-", "a">>)

(***************************************************************************)
(* What parse is expected to do, stated on the step just made.             *)
(***************************************************************************)
\* The frame that made the last step, and its record.
PreTop == preStack[Len(preStack)]
PreReg == Registry(PreTop.ty)

\* The options of the record that go by the long name.
OptionsOf(reg) == {reg.options[i] : i \in 1..Len(reg.options)}
OptionsNamed(reg, long) == {o \in OptionsOf(reg) : o.long = long}

\* The option takes a value: it is neither a switch nor a counter.
ValueOption(o) == o.action \in {"SetField", "SetOption", "Push"}

\* The value of field o after one value v was bound to it, old being the
\* value before.
Bound(o, old, v) ==
    CASE o.action = "SetOption" -> SomeVal(v)
      [] o.action = "Push" -> Append(old, v)
      [] OTHER -> v

\* The last step handled `--name=value` for an option of the record.
HandledWithArg(o) ==
    /\ op = "token"
    /\ ret.kind = "LongWithArg"
    /\ o \in OptionsNamed(PreReg, ret.name)

\* C6: `--name=value` for an option that takes no argument (a switch, a
\* counter, or a value of fixed arity 0) makes parse return
\* UnexpectedArgument("--name"), and no record is produced.
C6_NoArgumentRejectsValue ==
    \A o \in (IF op = "token" THEN OptionsOf(PreReg) ELSE {}) :
        (HandledWithArg(o) /\ (~ValueOption(o) \/ o.tuple_len = 0)) =>
            /\ outcome = Err(UnexpectedArgument(<<"-", "-">> \o ret.name))
            /\ stack = <<>>

\* C7: `--name=value` for an option that takes exactly one value (a scalar,
\* Option<T>, an element of a multi-value field, or a value of fixed arity 1)
\* converts value and performs the action without a next_arg call: the raw
\* arguments after the token are all left in the parser.
C7_OneValueBindsAttached ==
    \A o \in (IF op = "token" THEN OptionsOf(PreReg) ELSE {}) :
        (HandledWithArg(o) /\ ValueOption(o) /\ o.tuple_len \in {NoLen, 1}) =>
            /\ parser.args = Tail(pre.args)
            /\ ~Pending(parser)
            /\ IF FromStr(o.ty, ret.value).ok
               THEN /\ outcome = Running
                    /\ Top.result[o.field] =
                          Bound(o, PreTop.result[o.field],
                                IF o.tuple_len = 1 THEN <<FromStr(o.ty, ret.value).val>>
                                ELSE FromStr(o.ty, ret.value).val)
               ELSE outcome = Err(FailedParse(<<"-", "-">> \o ret.name))

\* C8: `--name=value` for an option of fixed arity n >= 2 makes parse return
\* UnexpectedSingleArgument("--name", n) and consumes no raw argument after
\* the token; `--name` followed by n raw arguments that convert binds them.
C8_TupleRejectsAttached ==
    \A o \in (IF op = "token" THEN OptionsOf(PreReg) ELSE {}) :
        /\ (HandledWithArg(o) /\ ValueOption(o) /\ o.tuple_len >= 2) =>
              /\ outcome = Err(UnexpectedSingleArgument(<<"-", "-">> \o ret.name, o.tuple_len))
              /\ stack = <<>>
              /\ parser.args = Tail(pre.args)
              /\ ~Pending(parser)
        /\ (/\ ret.kind = "Long"
            /\ o \in OptionsNamed(PreReg, ret.name)
            /\ ValueOption(o) /\ o.tuple_len >= 2
            /\ Len(pre.args) >= o.tuple_len + 1
            /\ \A k \in 2..(o.tuple_len + 1) : FromStr(o.ty, pre.args[k]).ok) =>
              /\ outcome = Running
              /\ parser.args = SubSeq(pre.args, o.tuple_len + 2, Len(pre.args))
              /\ Top.result[o.field] =
                    Bound(o, PreTop.result[o.field],
                          [k \in 1..o.tuple_len |-> FromStr(o.ty, pre.args[k + 1]).val])

\* C8 happens: `--pa=0` for the pair option was refused, an argument after it
\* left unread.
C8_Witness ==
    /\ op = "token"
    /\ ret = LongWithArg(<<"p", "a">>, <<"0">>)
    /\ outcome = Err(UnexpectedSingleArgument(<<"-", "-", "p", "a">>, 2))
    /\ parser.args # <<>>

\* The kinds of the errors the checks after the loop make.
MissingKinds == {"MissingRequired", "MissingRequiredCommand", "MissingRequiredFree"}

\* The required options, free fields and command of the frame's record that
\* no token was handled for.
UnmetOptions(frame) ==
    {o \in OptionsOf(Registry(frame.ty)) :
        o.required /\ o.field \notin frame.supplied}
UnmetFree(frame) ==
    {d \in {Registry(frame.ty).free[i] : i \in 1..Len(Registry(frame.ty).free)} :
        d.required /\ d.field \notin frame.supplied}
UnmetCommand(frame) ==
    /\ Registry(frame.ty).command # ""
    /\ Registry(frame.ty).command_required
    /\ Registry(frame.ty).command \notin frame.supplied

\* Some help-flag field of the frame's record is true.
HelpFlagSet(frame) ==
    \E i \in 1..Len(Registry(frame.ty).options) :
        /\ IsHelpFlag(Registry(frame.ty).options[i])
        /\ frame.result[Registry(frame.ty).options[i].field] = TRUE

\* C9: when the loop of a parse has ended without error, the parse succeeds
\* if a help flag of its record is true; otherwise it fails, with the
\* Missing.. error of a required field that was never supplied, iff there is
\* such a field.
C9_RequiredUnlessHelp ==
    op = "end" =>
       /\ HelpFlagSet(PreTop) => outcome.tag # "Err"
       /\ ~HelpFlagSet(PreTop) =>
             (outcome.tag = "Err" <=>
                 (UnmetOptions(PreTop) # {} \/ UnmetFree(PreTop) # {} \/ UnmetCommand(PreTop)))
       /\ outcome.tag = "Err" =>
             /\ outcome.err.kind \in MissingKinds
             /\ outcome.err.kind = "MissingRequired" =>
                   \E o \in UnmetOptions(PreTop) :
                       outcome.err = MissingRequired(DisplayForm(o))
             /\ outcome.err.kind = "MissingRequiredFree" => UnmetFree(PreTop) # {}
             /\ outcome.err.kind = "MissingRequiredCommand" => UnmetCommand(PreTop)
       /\ (outcome.tag = "Ok") => outcome.value = PreTop.result

\* C9 happens: a parse with a help flag set and required fields never
\* supplied succeeded.
C9_Witness ==
    /\ op = "end"
    /\ HelpFlagSet(PreTop)
    /\ UnmetOptions(PreTop) # {}
    /\ UnmetFree(PreTop) # {}
    /\ outcome.tag = "Ok"

\* The token names an option of the record: a long or a short name of it.
Declares(reg, tok) ==
    \E i \in 1..Len(reg.options) :
        \/ tok.kind \in {"Long", "LongWithArg"} /\ reg.options[i].long = tok.name
        \/ tok.kind = "Short" /\ <<reg.options[i].short>> = tok.name

\* C10: in a record with a command field a Free token is never a free
\* argument but the command name: the parse of the variant of that name is
\* entered (UnrecognizedCommand if there is none) and the record itself
\* handles no token from then on, so that an option only it declares is
\* unrecognized after the command name; its fields are as the tokens before
\* the command name left them, the command field apart.
C10_CommandTakesTheRest ==
    /\ (op = "token" /\ ret.kind = "Free") => PreReg.command = ""
    /\ op = "command" =>
          /\ ret = NextRawAsFree([pre EXCEPT !.args =
                       IF MeetsDashes(pre) THEN Tail(@) ELSE @])
          /\ PreReg.command # ""
          /\ LET named == {i \in 1..Len(Registry(PreReg.command_ty).commands) :
                              Registry(PreReg.command_ty).commands[i].name = ret.value}
             IN  IF named = {} THEN outcome = Err(UnrecognizedCommand(ret.value))
                 ELSE /\ outcome = Running
                      /\ Len(stack) = Len(preStack) + 1
                      /\ \E i \in named :
                            /\ Top.ty = Registry(PreReg.command_ty).commands[i].ty
                            /\ Top.variant_name =
                                  Registry(PreReg.command_ty).commands[i].variant_name
                      /\ stack[Len(preStack)].result = PreTop.result
    /\ op \in {"token", "command"} => ~PreTop.broke
    /\ (op = "token" /\ outcome = Running) =>
          /\ Len(stack) = Len(preStack)
          /\ \A k \in 1..(Len(stack) - 1) : stack[k] = preStack[k]
    /\ (op = "token" /\ ret.kind # "Free" /\ ~Declares(PreReg, ret) /\ ~PreReg.core) =>
          outcome = Err(IF ret.kind = "Short" THEN UnrecognizedShortOption(ret.name)
                        ELSE UnrecognizedLongOption(ret.name))
    /\ (op = "end" /\ outcome = Running) =>
          /\ Len(stack) = Len(preStack) - 1
          /\ Top.broke
          /\ Top.result = [preStack[Len(stack)].result EXCEPT
                              ![Registry(Top.ty).command] =
                                  SomeVal([variant_name |-> PreTop.variant_name,
                                           opts |-> PreTop.result])]
          /\ \A k \in 1..(Len(stack) - 1) : stack[k] = preStack[k]

\* C10 happens: `-h foo -h`: -h was applied to the record, then refused by
\* the foo subcommand.
C10_Witness ==
    /\ op = "token"
    /\ Len(preStack) = 2
    /\ preStack[1].ty = "Opts"
    /\ preStack[1].result["help"] = TRUE
    /\ PreTop.ty = "FooOpts"
    /\ ret = Short("h")
    /\ outcome = Err(UnrecognizedShortOption(<<"h">>))

\* The variant of the command enum of test_command_name that goes by the
\* name, "" when none does.
VariantNamed(name) ==
    CASE name = <<"f", "o", "o">> -> "Foo"
      [] name = <<"b", "a", "r">> -> "Bar"
      [] name = <<"b", "z", "z", "z">> -> "Baz"
      [] name = <<"b", "o", "o", "-", "d", "o">> -> "BooDo"
      [] OTHER -> ""

\* The raw arguments left once the Free token of the last step was read.
ArgsAfterFree == IF MeetsDashes(pre) THEN Tail(Tail(pre.args)) ELSE Tail(pre.args)

\* C11: parse_command selects the variant whose command name, the `name`
\* attribute if given and else the kebab-case form of the variant's name,
\* equals the string exactly; for any other string, the derived name of a
\* variant with a `name` attribute and a name in another case included, it
\* returns UnrecognizedCommand with that string and reads no argument more.
C11_CommandByExactName ==
    (op = "command" /\ PreReg.command_ty = "Command") =>
        IF VariantNamed(ret.value) # ""
        THEN /\ outcome = Running
             /\ Top.variant_name = VariantNamed(ret.value)
        ELSE /\ outcome = Err(UnrecognizedCommand(ret.value))
             /\ stack = <<>>
             /\ parser.args = ArgsAfterFree

\* C11 happens: `baz`, the derived name of the variant named "bzzz", was
\* refused, the argument after it left unread.
C11_Witness ==
    /\ op = "command"
    /\ ret.value = <<"b", "a", "z">>
    /\ outcome = Err(UnrecognizedCommand(<<"b", "a", "z">>))
    /\ parser.args # <<>>

\* The fields of a frame of ManyOpts are as its Free tokens fill them.
FilledInOrder(f) ==
    /\ f.result["alpha"] = IF Len(f.frees) >= 1 THEN FromStr("u32", f.frees[1]).val ELSE 0
    /\ f.result["bravo"] = IF Len(f.frees) >= 2 THEN SomeVal(f.frees[2]) ELSE NoneVal
    /\ f.result["charlie"] =
          IF Len(f.frees) >= 3 THEN SomeVal(FromStr("u32", f.frees[3]).val) ELSE NoneVal
    /\ f.result["rest"] = SubSeq(f.frees, 4, Len(f.frees))

\* C12: with three fixed free fields and an accumulating one, the i-th Free
\* token (i <= 3) is assigned to the i-th field and the later ones are
\* appended to the accumulating field in order, whatever options come
\* between them; fields no token reached keep their defaults.
C12_FreeSlotsInOrder ==
    \A k \in 1..Len(stack) : stack[k].ty = "ManyOpts" => FilledInOrder(stack[k])

\* C12 happens: four Free tokens and an option between them were handled.
C12_Witness ==
    /\ Len(stack) = 1
    /\ Top.ty = "ManyOpts"
    /\ Len(Top.frees) = 4
    /\ Top.result["verbose"] = TRUE
    /\ Top.result["rest"] # <<>>

\* The record has no accumulating free field and no command field.
FixedFreeOnly(reg) ==
    /\ reg.command = ""
    /\ reg.free # <<>> => reg.free[Len(reg.free)].action # "Push"

\* C13: in a record of derive(Options) with k fixed free fields, no
\* accumulating free field and no command field, the first k Free tokens are not refused as unexpected
\* and the (k+1)-th makes parse return UnexpectedFree with its text.
C13_UnexpectedFree ==
    (op = "token" /\ ret.kind = "Free" /\ FixedFreeOnly(PreReg) /\ ~PreReg.core) =>
        IF Len(PreTop.frees) >= Len(PreReg.free)
        THEN outcome = Err(UnexpectedFree(ret.value)) /\ stack = <<>>
        ELSE outcome.err.kind # "UnexpectedFree"

\* C13 happens: the second Free token given to a record with one free field
\* was refused.
C13_Witness ==
    /\ op = "token"
    /\ PreTop.ty = "ReqOpts"
    /\ Len(PreTop.frees) = 1
    /\ ret.kind = "Free"
    /\ outcome = Err(UnexpectedFree(ret.value))

\* The kinds of the errors for an option that is not registered.
UnrecognizedKinds == {"UnrecognizedShortOption", "UnrecognizedLongOption"}

\* The names test_opt_long and test_opt_short suppress or replace: -f and
\* --foo.
Suppressed(tok) ==
    \/ tok.kind = "Short" /\ tok.name = <<"f">>
    \/ tok.kind \in {"Long", "LongWithArg"} /\ tok.name = <<"f", "o", "o">>

\* C14: a Short token whose character is no short name of the record makes
\* parse of derive(Options) return UnrecognizedShortOption with the character, a Long or
\* LongWithArg token whose name is no long name UnrecognizedLongOption with
\* the name alone; a name suppressed with no_short or no_long, and the
\* field's name when `long = ".."` replaces it, are no names of the record.
C14_Unrecognized ==
    (op = "token" /\ ret.kind # "Free" /\ ~PreReg.core) =>
        /\ ~Declares(PreReg, ret) =>
              outcome = Err(IF ret.kind = "Short" THEN UnrecognizedShortOption(ret.name)
                            ELSE UnrecognizedLongOption(ret.name))
        /\ Declares(PreReg, ret) => outcome.err.kind \notin UnrecognizedKinds
        /\ (PreTop.ty \in {"LongOpts", "ShortOpts"} /\ Suppressed(ret)) =>
              outcome.err.kind \in UnrecognizedKinds

\* C14 happens: `--foo=1` was refused by the record whose field foo has the
\* long name "thing".
C14_Witness ==
    /\ op = "token"
    /\ PreTop.ty = "LongOpts"
    /\ ret = LongWithArg(<<"f", "o", "o">>, <<"1">>)
    /\ outcome = Err(UnrecognizedLongOption(<<"f", "o", "o">>))

\* The option as the user typed it: "-c" or "--name".
Typed(tok) == (IF tok.kind = "Short" THEN <<"-">> ELSE <<"-", "-">>) \o tok.name

\* The options of the record the token names.
OptionsTyped(reg, tok) ==
    {o \in OptionsOf(reg) :
        \/ tok.kind = "Short" /\ <<o.short>> = tok.name
        \/ tok.kind \in {"Long", "LongWithArg"} /\ o.long # NoName /\ o.long = tok.name}

\* The options the Short or Long token of the last step names.
PlainOptions ==
    IF op = "token" /\ ret.kind \in {"Short", "Long"} THEN OptionsTyped(PreReg, ret) ELSE {}

\* What is left of the short cluster after the Short token of the last step.
ClusterRest ==
    CASE ret.kind # "Short" -> <<>>
      [] Pending(pre) -> Tail(pre.cur.rest)
      [] OTHER -> SubSeq(Head(pre.args), 3, Len(Head(pre.args)))

\* The values next_arg can give after the Short or Long token of the last
\* step: the remainder of the cluster, if there is one, then the raw
\* arguments not read yet.
ValuesAfter ==
    (IF ClusterRest # <<>> THEN <<ClusterRest>> ELSE <<>>)
        \o (IF ret.kind = "Short" /\ Pending(pre) THEN pre.args ELSE Tail(pre.args))

\* The first n of vals convert to the type of o.
Convert(o, vals, n) == \A k \in 1..n : FromStr(o.ty, vals[k]).ok

\* An option of arity n met vals: too few give InsufficientArguments with the
\* number found, n of them are bound as they stand and the others are left.
TakesValues(o, vals, n) ==
    IF Len(vals) < n
    THEN Convert(o, vals, Len(vals)) =>
            /\ outcome = Err(InsufficientArguments(Typed(ret), n, Len(vals)))
            /\ stack = <<>>
    ELSE Convert(o, vals, n) =>
            /\ outcome = Running
            /\ Top.result[o.field] =
                  Bound(o, PreTop.result[o.field], [k \in 1..n |-> FromStr(o.ty, vals[k]).val])
            /\ ~Pending(parser)
            /\ parser.args = SubSeq(vals, n + 1, Len(vals))

C18_MissingArgument ==
    \A o \in PlainOptions :
        (ValueOption(o) /\ o.tuple_len = NoLen) =>
            IF ValuesAfter = <<>>
            THEN outcome = Err(MissingArgument(Typed(ret))) /\ stack = <<>>
            ELSE outcome.err.kind # "MissingArgument"

\* C18 happens: the long name of a single-value option ended the input.
C18_Witness ==
    /\ op = "token"
    /\ ret.kind = "Long"
    /\ pre.args # <<>>
    /\ parser.args = <<>>
    /\ outcome = Err(MissingArgument(<<"-", "-">> \o ret.name))

\* The record has a free field for one more Free token after n of them.
HasSlot(reg, n) ==
    /\ reg.free # <<>>
    /\ n < Len(reg.free) \/ reg.free[Len(reg.free)].action = "Push"

\* The free field the Free token after n others is for, when there is one.
SlotOf(reg, n) == reg.free[IF n + 1 < Len(reg.free) THEN n + 1 ELSE Len(reg.free)]

\* The value of the last step's token does not convert to the type of d.
Unconverted(d, v) == d.parse # ParseFromStr /\ ~FromStr(d.ty, v).ok

\* The value the option token of the last step supplies to a single-value
\* option: the attached one, or the next one.
Supplied ==
    IF ret.kind = "LongWithArg" THEN <<ret.value>>
    ELSE IF ValuesAfter = <<>> THEN <<>> ELSE <<Head(ValuesAfter)>>

\* C19: a value that does not convert makes parse return FailedParse naming
\* the option as typed, "-c" or "--name", the same for `--name=v`; for a Free
\* token it names the field of the free slot, the accumulating one included;
\* a field converted by a from_str function gives no FailedParse.
C19_FailedParseNames ==
    /\ \A o \in (IF op = "token" /\ ret.kind # "Free" THEN OptionsTyped(PreReg, ret) ELSE {}) :
          /\ (ValueOption(o) /\ o.tuple_len = NoLen /\ Supplied # <<>>) =>
                IF Unconverted(o, Supplied[1])
                THEN outcome = Err(FailedParse(Typed(ret)))
                ELSE outcome = Running
          /\ o.parse = ParseFromStr => outcome.err.kind # "FailedParse"
    /\ (op = "token" /\ ret.kind = "Free" /\ HasSlot(PreReg, Len(PreTop.frees))) =>
          (Unconverted(SlotOf(PreReg, Len(PreTop.frees)), ret.value) <=>
              outcome = Err(FailedParseWithName(SlotOf(PreReg, Len(PreTop.frees)).field)))

\* C19 happens: the third Free token, for the accumulating field, did not
\* convert.
C19_Witness ==
    /\ op = "token"
    /\ PreTop.ty = "FailOpts"
    /\ Len(PreTop.frees) = 2
    /\ ret.kind = "Free"
    /\ outcome = Err(FailedParseWithName("baz"))

\* C19 happens for options: `--name=v` and `-cv` did not convert.
C19_WitnessOption ==
    /\ op = "token"
    /\ PreTop.ty = "ParseOpts"
    /\ ret.kind = "LongWithArg"
    /\ outcome = Err(FailedParse(<<"-", "-">> \o ret.name))

\* The record the arguments were given to.
TopReg == Registry(preStack[1].ty)

\* The options of the record whose default literal does not convert.
BadDefaults(reg) ==
    {i \in 1..Len(reg.options) :
        /\ reg.options[i].default # NoDefault
        /\ ~FromStr(reg.options[i].ty, reg.options[i].default).ok}

\* The field has its default: the literal converted, if one is given.
HasDefault(o, v) == o.default # NoDefault => v = FromStr(o.ty, o.default).val

\* C20: the defaults are computed before a token is read: a default literal
\* that does not convert makes parse return FailedParseDefault with the
\* field and the literal whatever the arguments are, none of them read; the
\* literals that convert are the values of the fields before the first token.
C20_DefaultsFirst ==
    /\ \A i \in (IF op = "new" THEN {} ELSE BadDefaults(TopReg)) :
          /\ outcome = Err(FailedParseDefault(TopReg.options[i].field, TopReg.options[i].default))
          /\ op = "parse_args"
          /\ parser = pre
    /\ (op = "parse_args" /\ outcome = Running) =>
          \A o \in OptionsOf(TopReg) : HasDefault(o, Top.result[o.field])

\* C20 happens: the default of foo does not convert, and the arguments set
\* foo with a valid value and ask for help.
C20_Witness ==
    /\ preStack[1].ty = "BadDefault"
    /\ parser.args = <<<<"-", "-", "f", "o", "o", "=", "1">>, <<"-", "-", "h", "e", "l", "p">>>>
    /\ outcome = Err(FailedParseDefault("foo", <<"l", "o", "l", "w", "u", "t">>))

\* C20 happens for a literal that converts: bar and count start at 123 and 789.
C20_WitnessGood ==
    /\ op = "parse_args"
    /\ outcome = Running
    /\ Top.ty = "DefaultOpts"
    /\ Top.result["bar"] = 123
    /\ Top.result["count"] = 789

\* The fields of the record that are options, in declaration order.
IsOptionField(f) == f.kind = "option"
OptionFields == SelectSeq(decl, IsOptionField)

\* The short names the record's fields give with `short = ".."`.
ExplicitShorts == {OptionFields[j].short : j \in 1..Len(OptionFields)} \ {NoShort}

\* The loop that assigns short names has dealt with option i.
ShortAssigned(i) ==
    \/ built.phase = "shorts" /\ i < built.next
    \/ built.phase = "patterns"
    \/ built.phase = "done" /\ built.err \in {NoMessage, "option has no long or short flags"}

\* The short names that are taken when option i gets its own: the explicit
\* ones, and those of the options declared before it.
TakenBefore(i) == (ExplicitShorts \cup {built.options[j].short : j \in 1..(i - 1)}) \ {NoShort}

\* The short name a field of the name gets when those of taken are reserved.
AutoShort(name, taken) ==
    IF Head(name) \notin taken THEN Head(name)
    ELSE IF Len(ToUppercase(Head(name))) = 1 /\ ToUppercase(Head(name))[1] \notin taken
    THEN ToUppercase(Head(name))[1]
    ELSE NoShort

\* The short name of field f once the short names are assigned.
ShortWanted(f, taken) ==
    IF f.short # NoShort THEN f.short
    ELSE IF f.no_short \/ built.defaults.no_short THEN NoShort
    ELSE AutoShort(f.name, taken)

\* The names of the fields of the record, in declaration order.
DeclNames == [i \in 1..Len(decl) |-> decl[i].field]

\* C15: no automatic short name is assigned before every explicit short name
\* of the record is reserved; then, in declaration order, a field without
\* `short` and without no_short gets the first character of its name if it
\* is not taken, else the one-character uppercase form of it if that is not
\* taken, else no short name.  So option_0, declared before option_1 with
\* short = "o", gets O.
C15_AutomaticShortNames ==
    /\ \A i \in 1..Len(built.options) :
          IF ShortAssigned(i)
          THEN built.options[i].short = ShortWanted(OptionFields[i], TakenBefore(i))
          ELSE built.options[i].short = OptionFields[i].short
    /\ (DeclNames = <<"option_0", "option_1">> /\ built.phase = "done") =>
          /\ built.err = NoMessage
          /\ built.options[1].short = "O"
          /\ built.options[2].short = "o"

\* C15 happens: the record of test_opt_short_override is derived.
C15_Witness ==
    /\ DeclNames = <<"option_0", "option_1">>
    /\ built.phase = "done"
    /\ built.options[1].short = "O"

\* C15 happens where no short name is left: the first character and its
\* uppercase form are taken.
C15_WitnessNone ==
    /\ built.phase = "done"
    /\ built.err = NoMessage
    /\ \E i \in 1..Len(built.options) :
          /\ ~OptionFields[i].no_short
          /\ ~built.defaults.no_short
          /\ built.options[i].short = NoShort

\* The long name field f declares: `long = ".."`, or its name with "-" for
\* "_" unless no_long is given on the field or on the type.
LongWanted(f) ==
    IF f.long # NoName THEN f.long
    ELSE IF f.no_long \/ built.defaults.no_long THEN NoName
    ELSE [k \in 1..Len(f.name) |-> IF f.name[k] = "_" THEN "-" ELSE f.name[k]]

\* Two option fields declare the same long name or the same explicit short
\* name, or an option field declares no name at all.
Violating ==
    \/ \E i, j \in 1..Len(OptionFields) :
          /\ i # j
          /\ \/ LongWanted(OptionFields[i]) # NoName
                   /\ LongWanted(OptionFields[i]) = LongWanted(OptionFields[j])
             \/ OptionFields[i].short # NoShort
                   /\ OptionFields[i].short = OptionFields[j].short
    \/ \E i \in 1..Len(OptionFields) :
          /\ LongWanted(OptionFields[i]) = NoName
          /\ OptionFields[i].short = NoShort
          /\ OptionFields[i].no_short \/ built.defaults.no_short

\* The record was derived without error.
Accepted == built.phase = "done" /\ built.err = NoMessage

\* Options i and j of the record share no name.
NoSharedName(a, b) ==
    /\ a.long = NoName \/ a.long # b.long
    /\ a.short = NoShort \/ a.short # b.short

\* C16: in a record derive accepts every option has a long name or a short
\* name, no two options have the same long name, explicit or made of the
\* field's name, and no two the same short name, explicit or automatic; a
\* declaration that goes against one of these is refused with an error.
C16_NamesOfARecord ==
    /\ Accepted =>
          /\ \A i \in 1..Len(built.options) :
                built.options[i].long # NoName \/ built.options[i].short # NoShort
          /\ \A i, j \in 1..Len(built.options) :
                i # j => NoSharedName(built.options[i], built.options[j])
          /\ Len(built.options) = Len(OptionFields)
    /\ (built.phase = "done" /\ Violating) => built.err # NoMessage

\* C16 happens: a record of three options is accepted, one short name
\* automatic and in uppercase.
C16_Witness ==
    /\ Accepted
    /\ Len(built.options) = 3
    /\ \E i \in 1..3 :
          /\ OptionFields[i].short = NoShort
          /\ built.options[i].short = "O"

\* C16 happens: a record with the same explicit short name twice is refused.
C16_WitnessRefused ==
    /\ built.phase = "done"
    /\ built.err = "duplicate option name"
    /\ \E i, j \in 1..Len(OptionFields) :
          /\ i # j
          /\ OptionFields[i].short # NoShort
          /\ OptionFields[i].short = OptionFields[j].short

\* s is what is left of t when items are taken from its front.
Suffix(s, t) == \E k \in 0..Len(t) : s = SubSeq(t, k + 1, Len(t))

\* The last call took a raw argument, or a character of the cluster.
Consumed ==
    \/ Len(parser.args) < Len(pre.args)
    \/ Pending(pre) /\ Len(parser.cur.rest) < Len(pre.cur.rest)

\* What a call of next_opt or next_arg does to the input.
ConsumesOnly ==
    (op \in {"next_opt", "next_arg"}) =>
        /\ Suffix(parser.args, pre.args)
        /\ parser.args = pre.args => Suffix(parser.cur.rest, pre.cur.rest)
        /\ ret # None => Consumed
        /\ ret = None => (parser.args = <<>> /\ ~Pending(parser))
        /\ (pre.args = <<>> /\ ~Pending(pre)) => ret = None

\* C29: a call of next_opt that returns a token, and a call of next_arg that
\* returns a value, takes at least one raw argument or one character of the
\* cluster, and nothing is put back; end-of-stream is returned only when no
\* raw argument is left, and by every call after it; so the caller that goes
\* on calling comes to end-of-stream and stays there.
C29_CallsConsume == []ConsumesOnly /\ <>[](op # "new" /\ ret = None)

\* C29 happens: end-of-stream came after a cluster and raw arguments.
C29_Witness ==
    /\ op = "next_opt"
    /\ ret = None
    /\ pre.args = <<>>
    /\ sawDashes
    /\ seenFree

\* The raw argument is a long option: "--" and at least a character more.
IsLongArg(arg) == Len(arg) > 2 /\ arg[1] = "-" /\ arg[2] = "-"

\* The last call was next_opt, and it met a long option outside a cluster
\* while options were recognised.
MetLongArg ==
    /\ op = "next_opt"
    /\ ~Pending(pre)
    /\ ~pre.terminated
    /\ pre.args # <<>>
    /\ IsLongArg(Head(pre.args))

\* tok is arg read as a long option: split at its first "=" if it has one.
ReadsAs(tok, arg) ==
    IF \E i \in 1..Len(arg) : arg[i] = "="
    THEN /\ tok.kind = "LongWithArg"
         /\ <<"-", "-">> \o tok.name \o <<"=">> \o tok.value = arg
         /\ \A i \in 1..Len(tok.name) : tok.name[i] # "="
    ELSE tok = Long(SubSeq(arg, 3, Len(arg)))

\* C30: a raw argument that begins with "--" and is longer, met while not
\* terminated, comes back as LongWithArg(name, value) split at its first "="
\* if it has one, the value being all that follows, and else as Long of the
\* text after "--"; one raw argument is consumed and no cluster cursor is made.
C30_LongSplitAtFirstEquals ==
    MetLongArg =>
        /\ ReadsAs(ret, Head(pre.args))
        /\ parser.args = Tail(pre.args)
        /\ ~parser.cur.some
        /\ ~parser.terminated

\* C30 happens: "--a=b=" came back with the value "b=".
C30_Witness ==
    /\ MetLongArg
    /\ ret = LongWithArg(<<"a">>, <<"b", "=">>)

\* C30 happens with an empty value: "--a=".
C30_WitnessEmpty ==
    /\ MetLongArg
    /\ ret = LongWithArg(<<"a">>, <<>>)

\* Field f is to be a help flag: marked help_flag, or of the long name
\* "help" with no_help_flag neither on the field nor on the type.
HelpFlagWanted(f) ==
    \/ f.help_flag
    \/ LongWanted(f) = <<"h", "e", "l", "p">>
          /\ ~f.no_help_flag /\ ~built.defaults.no_help_flag

\* The fields derive took for help flags.
HelpFlags == {built.help_flag[k] : k \in 1..Len(built.help_flag)}

Parsed == outcome.tag = "Ok"

\* The record of the command selected in record v of type ty: <<>> if none.
Selected(ty, v) ==
    IF Registry(ty).command = "" \/ ~v[Registry(ty).command].some THEN <<>>
    ELSE <<[ty |-> (CHOOSE c \in {Registry(Registry(ty).command_ty).commands[i] :
                                    i \in 1..Len(Registry(Registry(ty).command_ty).commands)} :
                       c.variant_name = v[Registry(ty).command].val.variant_name).ty,
            v |-> v[Registry(ty).command].val.opts]>>

\* The chain of the record returned and the records of the commands selected
\* in it, outermost first.
Chain ==
    LET r1 == <<[ty |-> TopTy, v |-> outcome.value]>>
        r2 == r1 \o Selected(r1[1].ty, r1[1].v)
        r3 == IF Len(r2) < 2 THEN r2 ELSE r2 \o Selected(r2[2].ty, r2[2].v)
    IN  r3

\* The help-flag fields of record r that are set.
HelpFlagsSet(r) ==
    {Registry(r.ty).options[i].field :
        i \in {i \in 1..Len(Registry(r.ty).options) :
                  /\ \/ Registry(r.ty).options[i].help_flag
                     \/ /\ Registry(r.ty).options[i].long = help
                        /\ ~Registry(r.ty).options[i].no_help_flag
                  /\ r.v[Registry(r.ty).options[i].field] = TRUE}}

\* C22: help_requested of the record parse returned is true if and only if a
\* help-flag field is set in the record or in the record of a command
\* selected in it, down the chain of the commands selected, which the
\* records parsed nest three deep at most.
C22_HelpRequested ==
    Parsed =>
        /\ Selected(Chain[Len(Chain)].ty, Chain[Len(Chain)].v) = <<>>
        /\ HelpRequested(TopTy, outcome.value)
              <=> \E k \in 1..Len(Chain) : HelpFlagsSet(Chain[k]) # {}
        /\ \A k \in 1..Len(Chain) :
              HelpRequested(Chain[k].ty, Chain[k].v)
                 <=> \E j \in k..Len(Chain) : HelpFlagsSet(Chain[j]) # {}

\* C22 happens: `foo -h`: the help flag of the command selected is set, none
\* of the record itself.
C22_Witness ==
    /\ Parsed
    /\ TopTy = "HelpOpts"
    /\ Len(Chain) = 2
    /\ HelpFlagsSet(Chain[1]) = {}
    /\ HelpFlagsSet(Chain[2]) = {"help"}
    /\ HelpRequested(TopTy, outcome.value)

\* C22 happens: `sub foo -h`: the help flag of the command of the command.
C22_WitnessNested ==
    /\ Parsed
    /\ Len(Chain) = 3
    /\ HelpFlagsSet(Chain[1]) = {} /\ HelpFlagsSet(Chain[2]) = {}
    /\ HelpRequested(TopTy, outcome.value)

\* C22 happens: `--help` given to the record whose help field has
\* no_help_flag: the field is set and help is not requested.
C22_WitnessNoHelpFlag ==
    /\ Parsed
    /\ TopTy = "NoHelpOpts"
    /\ outcome.value["help"]
    /\ ~HelpRequested(TopTy, outcome.value)

\* No option of the record is marked help_flag.
NoneMarkedHelpFlag(reg) == \A i \in 1..Len(reg.options) : ~reg.options[i].help_flag

\* C23: in a record of derive(OptionsCore) with no field marked help_flag,
\* a switch named help waives nothing: parse fails whenever its loop ends
\* with a required field never supplied.
C23_CoreHelpWaivesNothing ==
    (/\ op = "end"
     /\ PreReg.core
     /\ NoneMarkedHelpFlag(PreReg)
     /\ UnmetOptions(PreTop) # {} \/ UnmetFree(PreTop) # {} \/ UnmetCommand(PreTop))
        => outcome.tag = "Err"

\* The token is one derive(Options) refuses as unrecognized or unexpected.
Unmatched ==
    \/ ret.kind # "Free" /\ ~Declares(PreReg, ret)
    \/ /\ ret.kind = "Free"
       /\ FixedFreeOnly(PreReg)
       /\ Len(PreTop.frees) >= Len(PreReg.free)

\* C24: parse of derive(OptionsCore) skips an option token that matches no
\* name of the record, and a Free token beyond the fixed free fields of a
\* record with no accumulating free field and no command field: no error is
\* returned, the record, the marks of the required fields and the free
\* counter are as before, and the loop goes on after the token.
C24_CoreSkipsUnmatched ==
    (op = "token" /\ PreReg.core /\ Unmatched) =>
        /\ outcome = Running
        /\ Len(stack) = Len(preStack)
        /\ Top.result = PreTop.result
        /\ Top.used = PreTop.used
        /\ Top.free_counter = PreTop.free_counter
        /\ ~Top.broke
        /\ parser = NextOpt(pre).p

\* C24 happens: an option of no name of the record was skipped after the
\* required option was given, which stays given.
C24_Witness ==
    /\ op = "token"
    /\ PreTop.ty = "CoreOpts"
    /\ ret.kind = "LongWithArg"
    /\ ~Declares(PreReg, ret)
    /\ outcome = Running
    /\ Top.result["foo"] = 1

\* C24 happens: the second Free token given to the record with one free
\* field was skipped.
C24_WitnessFree ==
    /\ op = "token"
    /\ PreTop.ty = "CoreOpts"
    /\ ret.kind = "Free"
    /\ Len(PreTop.frees) = 1
    /\ outcome = Running

\* C24 happens: a Free token given to the record with neither free fields
\* nor a command was skipped.
C24_WitnessNone ==
    /\ op = "token"
    /\ PreTop.ty = "CoreNone"
    /\ ret.kind = "Free"
    /\ outcome = Running

\* Error e is about token tok: it carries the token's name, its text or the
\* option as typed; the error of a default is that of the record of the
\* command the token selects.
NamesToken(e, tok) ==
    CASE e.kind \in UnrecognizedKinds -> tok.kind # "Free" /\ e.option = tok.name
      [] e.kind \in {"UnexpectedFree", "UnrecognizedCommand"} ->
           tok.kind = "Free" /\ e.option = tok.value
      [] e.kind \in {"MissingArgument", "InsufficientArguments", "UnexpectedArgument",
                     "UnexpectedSingleArgument"} ->
           tok.kind # "Free" /\ e.option = Typed(tok)
      [] e.kind = "FailedParse" ->
           IF tok.kind = "Free" THEN e.field # "" ELSE e.option = Typed(tok)
      [] e.kind = "FailedParseDefault" -> op = "command"
      [] OTHER -> FALSE

\* parse has returned an error found after its defaults were made.
Failed == outcome.tag = "Err" /\ op # "parse_args"

\* What holds of an error returned: no record is kept; a Missing-required
\* error comes from the checks after the loop, with nothing left to read; any
\* other is about the token just taken, and nothing is read but the token
\* and arguments of its option.  A token derive(Options) does not accept
\* never passes.
ErrorOfTheTokenTaken ==
    /\ Failed =>
          /\ stack = <<>> /\ outcome.value = <<>>
          /\ IF outcome.err.kind \in MissingKinds
             THEN op = "end" /\ parser.args = <<>> /\ ~Pending(parser)
             ELSE /\ op \in {"token", "command"}
                  /\ NamesToken(outcome.err, ret)
                  /\ ret = NextOpt(pre).ret
                  /\ Suffix(parser.args, NextOpt(pre).p.args)
                  /\ outcome.err.kind \in UnrecognizedKinds
                                          \cup {"UnexpectedFree", "UnrecognizedCommand"}
                        => parser = NextOpt(pre).p
    /\ (op = "token" /\ ~PreReg.core /\ Unmatched) => outcome.tag = "Err"

\* C28: parse returns the error of the first token it does not accept, and
\* reads nothing once it has an error: no record is returned with it, and
\* the parser stays where the error was found.  A Missing-required error is
\* returned only when the loop, the loops of the commands included, has read
\* all arguments without error.
C28_EarliestError ==
    /\ []ErrorOfTheTokenTaken
    /\ [][outcome.tag = "Err" => (parser' = parser /\ outcome' = outcome /\ stack' = stack)]_vars

\* C28 happens: of two options that are no options of the record the first
\* is the error, the second is left unread.
C28_Witness ==
    /\ Failed
    /\ op = "token"
    /\ outcome.err.kind \in UnrecognizedKinds
    /\ parser.args # <<>>
    /\ NextOpt(parser).ret.kind \in {"Short", "Long", "LongWithArg"}
    /\ ~Declares(PreReg, NextOpt(parser).ret)
    /\ ~PreReg.core

\* C28 happens: a required option is reported missing after the parse of
\* the command read the arguments to the end and returned.
C28_WitnessMissing ==
    /\ Failed
    /\ outcome.err.kind = "MissingRequired"
    /\ PreTop.broke

\* The name of the command selected in record r of the chain.
SelectedName(r) ==
    (CHOOSE c \in {Registry(Registry(r.ty).command_ty).commands[i] :
                     i \in 1..Len(Registry(Registry(r.ty).command_ty).commands)} :
        c.variant_name = r.v[Registry(r.ty).command].val.variant_name).name

\* The names of the commands selected, outermost first, a space before each.
PathText ==
    IF Len(Chain) = 1 THEN <<>>
    ELSE IF Len(Chain) = 2 THEN <<" ">> \o SelectedName(Chain[1])
    ELSE <<" ">> \o SelectedName(Chain[1]) \o <<" ">> \o SelectedName(Chain[2])

\* A help flag is set in a record of the chain.
HelpAsked == \E k \in 1..Len(Chain) : HelpFlagsSet(Chain[k]) # {}

\* C27: parse_args_or_exit ends in one of three ways, decided in this order:
\* on an error of parse_args the process exits with status 2 and the error
\* on stderr, nothing printed to stdout; else, if a help flag is set in the
\* record or in the record of a command selected, it prints the usage of the
\* innermost record selected, the names of the commands selected after the
\* program's name, outermost first, and exits with status 0; else the record
\* is returned and the process goes on.
C27_ThreeOutcomes ==
    /\ process = NotExited \/ outcome.tag \in {"Ok", "Err"}
    /\ process # NotExited =>
          /\ process.status \in {"exited", "returned"}
          /\ outcome.tag = "Err" =>
                process = Exited(2, outcome.err, <<>>, "", "")
          /\ (outcome.tag = "Ok" /\ HelpAsked) =>
                /\ process.status = "exited" /\ process.code = 0
                /\ process.stderr = NoError
                /\ process.command_str = PathText
                /\ process.usage = Chain[Len(Chain)].ty
                /\ process.command_list = Registry(Chain[Len(Chain)].ty).command_ty
          /\ (outcome.tag = "Ok" /\ ~HelpAsked) =>
                process = Returned(outcome.value)

\* C27 happens: `sub foo -h`: the usage of the command of the command was
\* printed with the two names, and the process exited with status 0.
C27_Witness ==
    /\ process.status = "exited"
    /\ process.code = 0
    /\ process.command_str = <<" ", "s", "u", "b", " ", "f", "o", "o">>
    /\ process.usage = "CmdOpts"

\* C27 happens: the process exited with status 2 on an error found with a
\* help flag of the record set.
C27_WitnessError ==
    /\ process.status = "exited"
    /\ process.code = 2
    /\ op = "token"
    /\ HelpFlagSet(PreTop)

\* C27 happens: the record was returned, with an option given.
C27_WitnessReturned ==
    /\ process.status = "returned"
    /\ TopTy = "ReqOpts"
    /\ process.value["thing"] = SomeVal(<<"x">>)

\* The entries usage is made of, in the order of their lines, and the width
\* and the help of the i-th.
Entries ==
    IF decl.kind = "commands" THEN decl.cmds ELSE decl.free \o decl.opts
EntryWidth(i) ==
    IF decl.kind = "commands" THEN Len(decl.cmds[i].name) + 4
    ELSE IF i <= Len(decl.free) THEN Len(decl.free[i].field) + 4
    ELSE OptWidth(decl.opts[i - Len(decl.free)])
HasHelp(i) == Entries[i].help # <<>>

\* The place of the help in the text of an entry, and the column it is at:
\* the number of characters before it on its line.
HelpAt(line) == CHOOSE k \in 1..Len(line) : line[k] = "H" /\ \A j \in 1..(k - 1) : line[j] # "H"
Broken(line) == \E j \in 1..Len(line) : line[j] = "\n"
HelpColumn(line) ==
    IF Broken(line)
    THEN HelpAt(line) - 1 - (CHOOSE j \in 1..Len(line) : line[j] = "\n")
    ELSE HelpAt(line) - 1

\* A width brought into the range of the column.
Clamped(w) == IF w < 8 THEN 8 ELSE IF w > 30 THEN 30 ELSE w

\* The entries whose text is made, with a help.
Helped == {i \in 1..Len(built.lines) : HasHelp(i)}

\* C25 as stated: the help of every entry starts at the column of the width
\* of the widest entry, at least 8 and at most 30.
C25_ColumnOfWidest ==
    \A i \in Helped :
        HelpColumn(built.lines[i]) = Clamped(MaxOr0({EntryWidth(j) : j \in 1..Len(Entries)}))

\* C25, amended: the help of every entry starts at the column of the width
\* of the widest entry among those not wider than 30, free fields and
\* options together, and at column 8 at least; an entry wider than 30 does
\* not move the column.  The same holds of the list of commands, whose
\* entries are as wide as the name and 4.
C25_ColumnOfWidestThatFits ==
    /\ built.width = Clamped(MaxOr0({w \in {EntryWidth(j) : j \in 1..Len(Entries)} : w <= 30}))
    /\ \A i \in Helped : HelpColumn(built.lines[i]) = built.width

\* C25 happens: the column is 15, the width of `-a, --alpha`, beside an
\* option 37 wide whose help is at column 15 too.
C25_Witness ==
    /\ built.phase = "done"
    /\ decl.kind = "record"
    /\ built.width = 15
    /\ \E i \in Helped : EntryWidth(i) = 37 /\ HelpColumn(built.lines[i]) = 15
    /\ \E i \in Helped : EntryWidth(i) = 15 /\ HelpColumn(built.lines[i]) = 15

\* C25 happens: the help of a command 7 wide is at column 8, beside a
\* command 31 wide.
C25_WitnessCommands ==
    /\ built.phase = "done"
    /\ decl.kind = "commands"
    /\ built.width = 8
    /\ \E i \in Helped : EntryWidth(i) = 7 /\ HelpColumn(built.lines[i]) = 8
    /\ \E i \in 1..Len(Entries) : EntryWidth(i) = 31

\* C26 as stated: the help of an entry wider than 30 is on the line after
\* its names, indented to the column; the help of an entry not wider than
\* the column is on the line of its names, at the column, two spaces or more
\* after them.
C26_WideEntriesWrap ==
    \A i \in Helped :
        /\ EntryWidth(i) > 30 =>
              /\ Broken(built.lines[i])
              /\ HelpColumn(built.lines[i]) = built.width
        /\ EntryWidth(i) <= built.width =>
              /\ ~Broken(built.lines[i])
              /\ HelpColumn(built.lines[i]) = built.width
              /\ built.lines[i][HelpAt(built.lines[i]) - 1] = " "
              /\ built.lines[i][HelpAt(built.lines[i]) - 2] = " "

(***************************************************************************)
(* Counters and multi-value options, stated on the arguments given.        *)
(***************************************************************************)
\* The counters of a record.
Counters(reg) == {o \in OptionsOf(reg) : o.action = "Count"}

\* The raw argument names options of the record that take no value and
\* nothing else: `--name`, or a cluster of short names.
NamesSwitches(reg, arg) ==
    \/ \E o \in OptionsOf(reg) :
          ~TakesArg(o) /\ o.long # NoName /\ arg = <<"-", "-">> \o o.long
    \/ /\ IsCluster(arg)
       /\ \A i \in 2..Len(arg) : \E o \in OptionsOf(reg) : ~TakesArg(o) /\ o.short = arg[i]

\* The times the raw argument names option o.
TimesNamed(arg, o) ==
    IF o.long # NoName /\ arg = <<"-", "-">> \o o.long THEN 1
    ELSE IF IsCluster(arg) THEN Cardinality({i \in 2..Len(arg) : arg[i] = o.short})
    ELSE 0

RECURSIVE Occurrences(_, _)
\* The times the raw arguments name option o.
Occurrences(args, o) ==
    IF args = <<>> THEN 0 ELSE TimesNamed(Head(args), o) + Occurrences(Tail(args), o)

\* The value a counter starts from: its `default` literal read as a decimal
\* number, or zero.
StartOf(o) == IF o.default = NoDefault THEN 0 ELSE ToNat(o.default)

\* A call of parse starts every counter of its record from its default.
CountersStart ==
    (op \in {"parse_args", "command"} /\ outcome = Running) =>
        \A o \in Counters(Registry(Top.ty)) : Top.result[o.field] = StartOf(o)

\* A token that names a counter adds one to it and reads nothing more: the
\* rest of the cluster stays pending and the raw arguments stay unread.  Any
\* other token leaves the counter as it is.
CountersStep ==
    (op = "token" /\ outcome = Running) =>
        \A o \in Counters(PreReg) :
            IF o \in PlainOptions
            THEN /\ Top.result[o.field] = PreTop.result[o.field] + 1
                 /\ parser.args = IF Pending(pre) THEN pre.args ELSE Tail(pre.args)
                 /\ Pending(parser) = (ClusterRest # <<>>)
                 /\ Pending(parser) => parser.cur.rest = ClusterRest
            ELSE Top.result[o.field] = PreTop.result[o.field]

\* Arguments that name only switches and counters leave every counter at
\* its default plus the times they name it.
CountersTotal ==
    (Parsed /\ \A i \in 1..Len(input) : NamesSwitches(TopReg, input[i])) =>
        \A o \in Counters(TopReg) :
            outcome.value[o.field] = StartOf(o) + Occurrences(input, o)

\* C31: a counter field of a record parsed is its default (zero, or the
\* `default` literal) plus the number of times its short or long name occurs
\* in the arguments, each repetition within a short cluster counting once;
\* the token of a counter reads no argument after it.
C31_CounterCounts ==
    /\ CountersStart
    /\ CountersStep
    /\ CountersTotal

\* C31 happens: `-nnn --number` was parsed and the counter is 4.
C31_Witness ==
    /\ Parsed
    /\ TopTy = "CountOpts"
    /\ input = <<<<"-", "n", "n", "n">>, <<"-", "-", "n", "u", "m", "b", "e", "r">>>>
    /\ outcome.value["number"] = 4

\* C31 happens: `-cc --count` was parsed by the record whose counter has the
\* default 789, and the counter is 792.
C31_WitnessDefault ==
    /\ Parsed
    /\ TopTy = "DefaultOpts"
    /\ input = <<<<"-", "c", "c">>, <<"-", "-", "c", "o", "u", "n", "t">>>>
    /\ outcome.value["count"] = 792

\* C31 happens: the counter of `-cf1` was counted, and `f1` is still to read.
C31_WitnessCluster ==
    /\ op = "token"
    /\ outcome = Running
    /\ ret = Short("c")
    /\ Top.result["count"] = 790
    /\ Pending(parser)
    /\ parser.cur.rest = <<"f", "1">>

\* The multi-value options of a record.
Multi(reg) == {o \in OptionsOf(reg) : o.action = "Push"}

\* The list after the method of a multi-value field was applied to v:
\* `push` and `push_back` put it last, `push_front` first.
Applied(meth, old, v) ==
    IF meth \in {"push", "push_back"} THEN old \o <<v>> ELSE <<v>> \o old

\* The number of values an occurrence of option o takes.
Arity(o) == IF o.tuple_len = NoLen THEN 1 ELSE o.tuple_len

\* The value of option o made of the texts vals.
ValueOf(o, vals) ==
    IF o.tuple_len = NoLen THEN FromStr(o.ty, vals[1]).val
    ELSE [k \in 1..o.tuple_len |-> FromStr(o.ty, vals[k]).val]

\* The texts the token of the last step gave its option.
TextsRead(o) ==
    IF ret.kind = "LongWithArg" THEN <<ret.value>> ELSE SubSeq(ValuesAfter, 1, Arity(o))

\* A token handled for a multi-value option applies the method once, to the
\* value made of the texts it read; any other token leaves the field.
MultiStep ==
    (op = "token" /\ outcome = Running) =>
        \A o \in Multi(PreReg) :
            IF o \in OptionsTyped(PreReg, ret)
            THEN Top.result[o.field] =
                    Applied(o.meth, PreTop.result[o.field], ValueOf(o, TextsRead(o)))
            ELSE Top.result[o.field] = PreTop.result[o.field]

\* A call of parse starts every multi-value option of its record empty.
MultiStart ==
    (op \in {"parse_args", "command"} /\ outcome = Running) =>
        \A o \in Multi(Registry(Top.ty)) : Top.result[o.field] = <<>>

\* The raw argument is `-s` or `--long` of option o.
BareName(o, arg) ==
    \/ arg = <<"-", o.short>>
    \/ o.long # NoName /\ arg = <<"-", "-">> \o o.long

\* The raw argument is `--long=value` of option o.
LongEquals(o, arg) ==
    /\ o.long # NoName
    /\ Len(arg) > Len(o.long) + 2
    /\ SubSeq(arg, 1, Len(o.long) + 3) = <<"-", "-">> \o o.long \o <<"=">>

\* The raw argument is `-svalue` of option o.
ShortGlued(o, arg) == Len(arg) > 2 /\ arg[1] = "-" /\ arg[2] = o.short

RECURSIVE ValuesIn(_, _)
\* The values the raw arguments give option o, the only option of its
\* record, in the order they are written.
ValuesIn(args, o) ==
    IF args = <<>> THEN <<>>
    ELSE IF BareName(o, Head(args)) /\ Len(args) > Arity(o)
    THEN <<ValueOf(o, SubSeq(args, 2, Arity(o) + 1))>>
            \o ValuesIn(SubSeq(args, Arity(o) + 2, Len(args)), o)
    ELSE IF LongEquals(o, Head(args))
    THEN <<ValueOf(o, <<SubSeq(Head(args), Len(o.long) + 4, Len(Head(args)))>>)>>
            \o ValuesIn(Tail(args), o)
    ELSE IF ShortGlued(o, Head(args)) /\ Len(args) >= Arity(o)
    THEN <<ValueOf(o, <<SubSeq(Head(args), 3, Len(Head(args)))>> \o Tail(args))>>
            \o ValuesIn(SubSeq(args, Arity(o) + 1, Len(args)), o)
    ELSE ValuesIn(Tail(args), o)

\* A sequence in reverse.
Reverse(l) == [i \in 1..Len(l) |-> l[Len(l) + 1 - i]]

\* The record returned lists the values the arguments give its one
\* multi-value option: in their order if the method puts a value last, in
\* reverse if it puts it first.
MultiTotal ==
    (Parsed /\ Len(TopReg.options) = 1) =>
        \A o \in Multi(TopReg) :
            outcome.value[o.field] =
                IF o.meth = "push_front" THEN Reverse(ValuesIn(input, o))
                ELSE ValuesIn(input, o)

\* C32: a token handled for a multi-value option, in any of the forms `-t a`,
\* `-tb`, `--thing=c` and `--thing d`, applies the accumulation method of the
\* field once to the value parsed, in the order of the arguments; with `push`
\* the field of the record returned lists the values in the order of the
\* arguments, and it is empty, its default, when the option does not occur.
C32_MultiInOrder ==
    /\ MultiStart
    /\ MultiStep
    /\ MultiTotal

\* C32 happens: `-t a -tb` gave the list a, b.
C32_Witness ==
    /\ Parsed
    /\ TopTy = "PushOpts"
    /\ input = <<<<"-", "t">>, <<"a">>, <<"-", "t", "b">>>>
    /\ outcome.value["thing"] = <<<<"a">>, <<"b">>>>

\* C32 happens: `--thing=c --thing d` gave the list c, d.
C32_WitnessLong ==
    /\ Parsed
    /\ TopTy = "PushOpts"
    /\ input = <<<<"-", "-", "t", "h", "i", "n", "g", "=", "c">>,
                 <<"-", "-", "t", "h", "i", "n", "g">>, <<"d">>>>
    /\ outcome.value["thing"] = <<<<"c">>, <<"d">>>>

\* C32 happens: `-f 1 2 -f 2 1` gave the pairs (1, 2) and (2, 1) to the
\* option with the method push_back.
C32_WitnessPairs ==
    /\ Parsed
    /\ TopTy = "MultiOpts"
    /\ outcome.value["foo"] = <<<<1, 2>>, <<2, 1>>>>

\* C32 happens: `-b a -bc` gave the list c, a to the option with the method
\* push_front.
C32_WitnessFront ==
    /\ Parsed
    /\ TopTy = "FrontOpts"
    /\ input = <<<<"-", "b">>, <<"a">>, <<"-", "b", "c">>>>
    /\ outcome.value["bar"] = <<<<"c">>, <<"a">>>>

\* C32 happens: no argument named the option and the list is empty.
C32_WitnessNone ==
    /\ Parsed
    /\ TopTy = "PushOpts"
    /\ input = <<>>
    /\ outcome.value["thing"] = <<>>

(***************************************************************************)
(* self_usage of the record returned.                                      *)
(***************************************************************************)
\* C33: self_usage() of the record parse returned is usage() of the record
\* of the innermost command selected, down the chain of the commands
\* selected, and usage() of the record itself when it has no command
\* selected.
C33_SelfUsageInnermost ==
    Parsed =>
        /\ SelfUsage(TopTy, outcome.value) = Chain[Len(Chain)].ty
        /\ Selected(Chain[Len(Chain)].ty, Chain[Len(Chain)].v) = <<>>
        /\ Len(Chain) = 1 => SelfUsage(TopTy, outcome.value) = TopTy

\* C33 happens: `sub foo` selected a command of a command, and self_usage
\* is the usage of the innermost record.
C33_Witness ==
    /\ Parsed
    /\ TopTy = "NestOpts"
    /\ Len(Chain) = 3
    /\ SelfUsage(TopTy, outcome.value) = "CmdOpts"

\* C33 happens: no command was selected in a record with a command field,
\* and self_usage is the usage of the record.
C33_WitnessNone ==
    /\ Parsed
    /\ TopTy = "HelpOpts"
    /\ ~outcome.value["cmd"].some
    /\ SelfUsage(TopTy, outcome.value) = "HelpOpts"

(***************************************************************************)
(* The free fields and the command field of a record.                      *)
(***************************************************************************)
\* The places in the declaration of the fields given `free`, and of those
\* given `command`.
FreeAt == {i \in 1..Len(decl) : decl[i].kind \in {"free", "command free"}}
CommandAt == {i \in 1..Len(decl) : decl[i].kind \in {"command", "command free"}}

\* A free field that accumulates is declared before another free field.
PushNotLast == \E i, j \in FreeAt : i < j /\ decl[i].action = "Push"

\* derive has ended with an error.
Refused == built.phase = "done" /\ built.err # NoMessage

\* C34: derive refuses a record that declares a free field and a command
\* field, in either order, a record that declares two command fields, and a
\* record in which a free field that accumulates is followed by another free
\* field; a record derive accepts has one command field at most, no free
\* field beside a command field, and no free field that accumulates but the
\* last.
C34_SlotsExclusive ==
    built.phase = "done" =>
        /\ (FreeAt # {} /\ CommandAt # {}) => Refused
        /\ Cardinality(CommandAt) >= 2 => Refused
        /\ PushNotLast => Refused
        /\ Accepted =>
              /\ Cardinality(CommandAt) <= 1
              /\ (built.command # "") = (CommandAt # {})
              /\ built.command # "" => built.free = <<>>
              /\ Len(built.free) = Cardinality(FreeAt)
              /\ \A i \in 1..(Len(built.free) - 1) : built.free[i].action # "Push"

\* C34 happens: a command field declared after a free field was refused.
C34_Witness ==
    /\ Refused
    /\ Len(decl) = 2
    /\ decl[1].kind = "free" /\ decl[2].kind = "command"
    /\ built.err = "command and free options are mutually exclusive"

\* C34 happens: a free field declared after a command field was refused.
C34_WitnessAfter ==
    /\ Refused
    /\ Len(decl) = 2
    /\ decl[1].kind = "command" /\ decl[2].kind = "free"
    /\ built.err = "command and free options are mutually exclusive"

\* C34 happens: a second command field was refused.
C34_WitnessTwo ==
    /\ Refused
    /\ Len(decl) = 2
    /\ decl[1].kind = "command" /\ decl[2].kind = "command"
    /\ built.err = "duplicate declaration of command field"

\* C34 happens: a free field after one that accumulates was refused.
C34_WitnessPush ==
    /\ Refused
    /\ Len(decl) = 2
    /\ decl[1].action = "Push" /\ decl[2].kind = "free"
    /\ built.err = "only the final free option may be of type Vec<T>"

\* C34 happens: a field given both `command` and `free` was refused.
C34_WitnessBoth ==
    /\ Refused
    /\ Len(decl) = 1
    /\ decl[1].kind = "command free"

\* C34 happens: a record whose last free field accumulates was accepted.
C34_WitnessAccepted ==
    /\ Accepted
    /\ Len(built.free) = 2
    /\ built.free[1].action = "SetField"
    /\ built.free[2].action = "Push"

(***************************************************************************)
(* The Parser a command's parse is given.                                  *)
(***************************************************************************)
\* The names of the commands of a record.
CommandNames(reg) ==
    IF reg.command = "" THEN {}
    ELSE {Registry(reg.command_ty).commands[i].name :
             i \in 1..Len(Registry(reg.command_ty).commands)}

\* The record of the command of reg that has the name.
RecordNamed(reg, name) ==
    Registry((CHOOSE c \in {Registry(reg.command_ty).commands[i] :
                               i \in 1..Len(Registry(reg.command_ty).commands)} :
                 c.name = name).ty)

\* The arguments are a command name of the record after `--`, or its command
\* name first under StopAtFirstFree: the place of the name, 0 if neither.
NameReachedTerminated ==
    IF Len(input) >= 2 /\ input[1] = <<"-", "-">> /\ input[2] \in CommandNames(TopReg) THEN 2
    ELSE IF /\ Len(input) >= 1 /\ input[1] \in CommandNames(TopReg)
            /\ parser.style = StopAtFirstFree
    THEN 1
    ELSE 0

\* The arguments after place k.
InputAfter(k) == SubSeq(input, k + 1, Len(input))

\* The command's parse starts with the Parser as it is after the name was
\* read: the style of the caller, and terminated if the caller's Parser was,
\* if `--` came before the name, or if the style is StopAtFirstFree.
EnteredAsLeft ==
    (op = "command" /\ outcome = Running) =>
        /\ parser.style = pre.style
        /\ parser.terminated =
              (pre.terminated \/ MeetsDashes(pre) \/ pre.style = StopAtFirstFree)
        /\ parser.args = ArgsAfterFree
        /\ ~Pending(parser)

\* A command's parse that reads from a terminated Parser is given the raw
\* argument as a Free token, and the Parser stays terminated.
TerminatedGivesFree ==
    (op = "token" /\ Len(preStack) >= 2 /\ pre.terminated) =>
        /\ ret = Free(Head(pre.args))
        /\ parser.terminated \/ outcome.tag = "Err"
        /\ outcome = Running => Top.supplied \cap {o.field : o \in OptionsOf(PreReg)} = {}

\* What parse_args returns when every argument after the command name is a
\* free argument of the command's record: UnexpectedFree on the first if the
\* record has no free field, and else the record with the arguments in its
\* free field that accumulates, unless a required field is missing.
AllFreeAfter(k) ==
    LET sub == RecordNamed(TopReg, input[k])
        rest == InputAfter(k)
    IN  IF rest = <<>> THEN outcome.tag = "Err" => outcome.err.kind \in MissingKinds
        ELSE IF sub.free = <<>> THEN outcome = Err(UnexpectedFree(rest[1]))
        ELSE \/ /\ Parsed
                /\ outcome.value[TopReg.command].some
                /\ outcome.value[TopReg.command].val.opts[sub.free[1].field] = rest
             \/ outcome.tag = "Err" /\ outcome.err.kind \in MissingKinds

\* C35: the command's parse is given the Parser of its caller with the
\* terminated flag and the style as they are: when the command name came
\* after `--`, or the style is StopAtFirstFree, every argument after the
\* name is given to the command's record as a free argument and no option of
\* it is recognised.
C35_DelegatedTerminated ==
    /\ EnteredAsLeft
    /\ TerminatedGivesFree
    /\ (outcome.tag \in {"Ok", "Err"} /\ NameReachedTerminated # 0) =>
          AllFreeAfter(NameReachedTerminated)

\* C35 happens: `-- bar -f` gave `-f` to the free field of the command.
C35_Witness ==
    /\ Parsed
    /\ TopTy = "Opts"
    /\ input = <<<<"-", "-">>, <<"b", "a", "r">>, <<"-", "f">>>>
    /\ parser.style = AllOptions
    /\ outcome.value["command"].val.opts["free"] = <<<<"-", "f">>>>

\* C35 happens: under StopAtFirstFree `foo --foo=x` was refused, the option
\* of the command read as a free argument.
C35_WitnessStop ==
    /\ TopTy = "Opts"
    /\ input = <<<<"f", "o", "o">>, <<"-", "-", "f", "o", "o", "=", "x">>>>
    /\ parser.style = StopAtFirstFree
    /\ outcome = Err(UnexpectedFree(<<"-", "-", "f", "o", "o", "=", "x">>))

\* C35 happens: under AllOptions `foo --foo=x` set the option of the
\* command, the Parser not terminated.
C35_WitnessOption ==
    /\ Parsed
    /\ TopTy = "Opts"
    /\ input = <<<<"f", "o", "o">>, <<"-", "-", "f", "o", "o", "=", "x">>>>
    /\ parser.style = AllOptions
    /\ outcome.value["command"].val.opts["foo"] = SomeVal(<<"x">>)

(***************************************************************************)
(* The value an option reads with next_arg.                                *)
(***************************************************************************)
\* The value of field o after v was given to it, old being the value before.
Taken(o, old, v) ==
    IF o.action = "Push" THEN Applied(o.meth, old, v) ELSE Bound(o, old, v)

\* An option of one value, named by a Short or Long token, is given the rest
\* of the cluster or else the next raw argument as it stands, whatever it
\* looks like, and the Parser is left not terminated, of the same style and
\* with the raw arguments after the value.
ValueAsItStands ==
    \A o \in PlainOptions :
        (/\ ValueOption(o) /\ o.tuple_len = NoLen
         /\ ValuesAfter # <<>>
         /\ FromStr(o.ty, ValuesAfter[1]).ok) =>
            /\ outcome = Running
            /\ Top.result[o.field] =
                  Taken(o, PreTop.result[o.field], FromStr(o.ty, ValuesAfter[1]).val)
            /\ o.ty = "String" =>
                  Top.result[o.field] = Taken(o, PreTop.result[o.field], ValuesAfter[1])
            /\ ~parser.terminated
            /\ parser.style = pre.style
            /\ ~Pending(parser)
            /\ parser.args = Tail(ValuesAfter)

\* The raw argument after the value an option has just read is classified as
\* the first argument of a Parser not terminated would be.
ClassifiedAfterValue ==
    (/\ op = "token" /\ outcome = Running
     /\ \E o \in PlainOptions : ValueOption(o) /\ o.tuple_len = NoLen
     /\ parser.args # <<>>
     /\ Head(parser.args) # <<"-", "-">>) =>
        NextOpt(parser).ret.kind = Classify(Head(parser.args)).kind

\* C36: next_arg returns the raw argument as it stands and leaves the
\* terminated flag and the style alone: `--`, `-x` or `--long` after an
\* option that takes a value is that option's value; a `--` read so does not
\* end the recognition of options, and under StopAtFirstFree a value without
\* a dash read so is not the first free argument.
C36_NextArgVerbatim ==
    /\ ValueAsItStands
    /\ ClassifiedAfterValue

\* C36 happens: `-o -- --fo=1` gave `--` to the option and went on to set
\* the option after it.
C36_Witness ==
    /\ Parsed
    /\ TopTy = "OneOpts"
    /\ input = <<<<"-", "o">>, <<"-", "-">>, <<"-", "-", "f", "o", "=", "1">>>>
    /\ outcome.value["opt"] = SomeVal(<<"-", "-">>)
    /\ outcome.value["foo"] = 1

\* C36 happens: under StopAtFirstFree `-o x --fo=1` gave `x` to the option
\* and went on to set the option after it.
C36_WitnessStop ==
    /\ Parsed
    /\ TopTy = "OneOpts"
    /\ parser.style = StopAtFirstFree
    /\ input = <<<<"-", "o">>, <<"x">>, <<"-", "-", "f", "o", "=", "1">>>>
    /\ outcome.value["opt"] = SomeVal(<<"x">>)
    /\ outcome.value["foo"] = 1

\* C36 happens: `-o --op` gave the long name of the option to it as its
\* value, and `-o -x` an unknown short name.
C36_WitnessNames ==
    /\ op = "token"
    /\ outcome = Running
    /\ Top.ty = "OneOpts"
    /\ ret = Short("o")
    /\ Top.result["opt"] \in {SomeVal(<<"-", "-", "o", "p">>), SomeVal(<<"-", "x">>)}

(***************************************************************************)
(* A raw `--` before and after the Parser is terminated.                   *)
(***************************************************************************)
Dashes == <<"-", "-">>

\* next_opt on p reads a raw "--" from the arguments.
ReadsDashes(p) == ~Pending(p) /\ p.args # <<>> /\ Head(p.args) = Dashes

\* C37: a next_opt call of a terminated Parser that reads a raw `--` returns
\* Free("--") and consumes that argument alone; a call that reads a raw `--`
\* and does not return it, consuming it with the argument after it, is a call
\* of a Parser not terminated, which the call leaves terminated.
C37_DashesAfterTerminated ==
    op = "next_opt" =>
       /\ (pre.terminated /\ ReadsDashes(pre)) =>
             /\ ret = Free(Dashes)
             /\ parser.args = Tail(pre.args)
             /\ parser.terminated
       /\ (ReadsDashes(pre) /\ parser.args # Tail(pre.args)) =>
             /\ ~pre.terminated
             /\ parser.terminated
             /\ parser.args = SubSeq(pre.args, 3, Len(pre.args))
             /\ ret = (IF Len(pre.args) >= 2 THEN Free(pre.args[2]) ELSE None)
       /\ ret = Free(Dashes) =>
             \/ pre.terminated /\ ReadsDashes(pre)
             \/ MeetsDashes(pre) /\ Len(pre.args) >= 2 /\ pre.args[2] = Dashes

\* C37 happens: a `--` had ended the recognition of options, and a later `--`
\* was returned as Free("--") by a call that found the flag set.
C37_Witness ==
    /\ op = "next_opt"
    /\ sawDashes
    /\ pre.terminated
    /\ ReadsDashes(pre)
    /\ ret = Free(Dashes)

\* C37 happens: under StopAtFirstFree a free argument had set the flag, no
\* `--` had been met, and a `--` was returned as Free("--").
C37_WitnessStop ==
    /\ op = "next_opt"
    /\ ~sawDashes
    /\ hadFree
    /\ pre.style = StopAtFirstFree
    /\ pre.terminated
    /\ ReadsDashes(pre)
    /\ ret = Free(Dashes)

\* C37 happens: a `--` met while the flag was not set was consumed and the
\* argument after it returned.
C37_WitnessSwallowed ==
    /\ op = "next_opt"
    /\ MeetsDashes(pre)
    /\ ret.kind = "Free"
    /\ ret.value # Dashes
    /\ parser.args = SubSeq(pre.args, 3, Len(pre.args))

(***************************************************************************)
(* Whose help flags waive the checks of the required fields.               *)
(***************************************************************************)
\* Some required field of the frame's record was never supplied.
Unmet(frame) ==
    UnmetOptions(frame) # {} \/ UnmetFree(frame) # {} \/ UnmetCommand(frame)

\* No help flag of the record whose parse ends is set, but one is in the
\* record of the command it stored: help_requested of the record is true.
HelpBelow ==
    /\ ~HelpFlagSet(PreTop)
    /\ HelpRequested(PreTop.ty, PreTop.result)

\* No help flag of the record whose parse ends is set, but one is in a record
\* whose command branch called the parse.
HelpAbove ==
    /\ ~HelpFlagSet(PreTop)
    /\ \E k \in 1..(Len(preStack) - 1) : HelpFlagSet(preStack[k])

\* The error is for a required field of the record whose parse ends.
ErrOfOwnField ==
    /\ outcome.tag = "Err"
    /\ outcome.err.kind \in MissingKinds
    /\ outcome.err.kind = "MissingRequired" =>
          \E o \in UnmetOptions(PreTop) : outcome.err = MissingRequired(DisplayForm(o))
    /\ outcome.err.kind = "MissingRequiredFree" => UnmetFree(PreTop) # {}
    /\ outcome.err.kind = "MissingRequiredCommand" => UnmetCommand(PreTop)

\* C38: the checks of the required fields of a record are waived by the help
\* flags of that record alone: with none of them set and a required field
\* not supplied the parse fails, though a help flag is set in the command the
\* record stored or in the record that called the parse; with one of them
\* set the parse does not fail.
C38_OwnHelpFlagsWaive ==
    op = "end" =>
       /\ (HelpBelow /\ Unmet(PreTop)) => ErrOfOwnField
       /\ (HelpAbove /\ Unmet(PreTop)) => ErrOfOwnField
       /\ outcome.tag = "Err" => ~HelpFlagSet(PreTop) /\ Unmet(PreTop)

\* C38 happens: input such as `run -h` set the help flag of the
\* command alone, and the record that holds it failed on its own `--level`.
C38_Witness ==
    /\ op = "end"
    /\ TopTy = "WaiveOpts"
    /\ Len(preStack) = 1
    /\ HelpBelow
    /\ outcome = Err(MissingRequired(<<"-", "-", "l", "e", "v", "e", "l">>))

\* C38 happens: `-h run` set the help flag of the outer record alone, and
\* the command failed on its own `--name`.
C38_WitnessAbove ==
    /\ op = "end"
    /\ TopTy = "WaiveOpts"
    /\ Len(preStack) = 2
    /\ HelpAbove
    /\ input = <<<<"-", "h">>, <<"r", "u", "n">>>>
    /\ outcome = Err(MissingRequired(<<"-", "-", "n", "a", "m", "e">>))

\* C38 happens: `-l1 run -h` was parsed, the help flag of the command
\* waiving its `--name`.
C38_WitnessWaived ==
    /\ Parsed
    /\ TopTy = "WaiveOpts"
    /\ input = <<<<"-", "l", "1">>, <<"r", "u", "n">>, <<"-", "h">>>>
    /\ ~outcome.value["help"]
    /\ outcome.value["cmd"].val.opts["help"]
    /\ HelpRequested("WaiveOpts", outcome.value)

(***************************************************************************)
(* Which of several required fields not supplied is reported.              *)
(***************************************************************************)
\* The places in the record's options, which are in the order the fields
\* were declared, of the required options never supplied.
UnmetAt(frame) ==
    {i \in 1..Len(Registry(frame.ty).options) :
        /\ Registry(frame.ty).options[i].required
        /\ Registry(frame.ty).options[i].field \notin frame.supplied}

\* The required option never supplied that was declared first.
FirstUnmetOption(frame) ==
    Registry(frame.ty).options[CHOOSE i \in UnmetAt(frame) : \A j \in UnmetAt(frame) : i <= j]

\* The error for the first field never supplied: the command or a free field
\* before any option, and the options in the order they were declared.
FirstUnmet(frame) ==
    IF UnmetCommand(frame) THEN MissingRequiredCommand
    ELSE IF UnmetFree(frame) # {} THEN MissingRequiredFree
    ELSE MissingRequired(DisplayForm(FirstUnmetOption(frame)))

\* C39: when the parse of a record ends with no help flag of it set and
\* required fields not supplied, the error is that of the first of them in
\* this order: the required command and free fields, then the required
\* options as declared; a required free field declared after a required
\* option is reported before it.
C39_FirstUnmetReported ==
    (op = "end" /\ ~HelpFlagSet(PreTop) /\ Unmet(PreTop)) =>
        outcome = Err(FirstUnmet(PreTop))

\* C39 happens: with nothing supplied, the free field declared after the
\* option `alpha` was reported and not the option.
C39_Witness ==
    /\ op = "end"
    /\ TopTy = "OrderOpts"
    /\ input = <<>>
    /\ Cardinality(UnmetOptions(PreTop)) = 2
    /\ Cardinality(UnmetFree(PreTop)) = 2
    /\ Registry("OrderOpts").options[1].field = "alpha"
    /\ outcome = Err(MissingRequiredFree)

\* C39 happens: with the first free field supplied the second, declared
\* last, was reported before the options.
C39_WitnessSecond ==
    /\ op = "end"
    /\ TopTy = "OrderOpts"
    /\ input = <<<<"x">>>>
    /\ Cardinality(UnmetFree(PreTop)) = 1
    /\ Cardinality(UnmetOptions(PreTop)) = 2
    /\ outcome = Err(MissingRequiredFree)

\* C39 happens: with the free fields supplied and both options not, the
\* option declared first was reported.
C39_WitnessOptions ==
    /\ op = "end"
    /\ TopTy = "OrderOpts"
    /\ UnmetFree(PreTop) = {}
    /\ Cardinality(UnmetOptions(PreTop)) = 2
    /\ outcome = Err(MissingRequired(<<"-", "-", "a", "l", "p", "h", "a">>))

\* C39 happens: with nothing supplied, the command declared after the option
\* `level` was reported and not the option.
C39_WitnessCommand ==
    /\ op = "end"
    /\ TopTy = "WaiveOpts"
    /\ input = <<>>
    /\ UnmetOptions(PreTop) # {}
    /\ outcome = Err(MissingRequiredCommand)

=============================================================================
